---- MODULE Spec2Model ----
(***************************************************************************)
(* Codetective: the multi-source code importer (CodeGroup) and the         *)
(* single-flight polling scheduler (detection_analysis_task) together with *)
(* the wizard handlers that interleave with it.                            *)
(*                                                                         *)
(* A path is a record [dir, stem, ext]: dir is the sequence of directory   *)
(* components, ext the text of the last component from its last '.' on     *)
(* ("" when it has no dot), stem identifies the rest of that component.    *)
(* stem 0 with ext "" and no dir is the empty name.                        *)
(***************************************************************************)
EXTENDS Integers, Sequences, FiniteSets, TLC

\* ------------------------------------------------------------------ limits
MAX_NUM_FILES == 100

MAX_FILE_SIZE == 100 * 1024

\* Recognized code extensions (file/suffix.rs, LANGUAGE_MAP keys).
LANGUAGE_MAP == {".rs", ".py"}

\* Extensions that extract_archive dispatches to a decoder.
ArchiveExts == {".zip", ".tar", ".gz", ".tgz", ".7z"}

\* The fixed synthetic path of import_textbox ("code from the textbox").
TextboxPath == [dir |-> <<>>, stem |-> -1, ext |-> ""]

EmptyName == [dir |-> <<>>, stem |-> 0, ext |-> ""]

\* Option<usize>::None of get_size / total_size.
NoSize == -1

\* ------------------------------------------------------------- model bounds
\* Number of files in one block.
BlockLen == 60
\* Status cells (FileDetectionRow instances) created in one session.
MaxCells == 2
\* API clients created in one session.
MaxClients == 2
\* Files registered at the start of a scheduler-only run.
MaxWave == 3
\* Polling iterations counted after the wave has drained.
ExtraPolls == 2
\* Tree objects of a generated repository (the root and its subtrees).
MaxTrees == 4
\* Entries an archive holds after its leading run of plain code files.
MaxTail == 3

\* ---------------------------------------------------------------- CodeFile
\* content is [size, id]; url is [scheme, name, sha, id].  src identifies the
\* content string (Local) or the URL (Remote, with the commit SHA it embeds).
new_local(ext, content) ==
    [origin |-> "Local", ext |-> ext, size |-> content.size,
     src |-> [sha |-> 0, id |-> content.id]]

new_remote(url, approx_size) ==
    [origin |-> "Remote", ext |-> url.name.ext, size |-> approx_size,
     src |-> [sha |-> url.sha, id |-> url.id]]

get_size(file) ==
    IF file.origin = "Local" THEN file.size
    ELSE IF file.size = 0 THEN NoSize ELSE file.size

\* Some(ext) of a Local file, the extension of the URL path of a Remote one.
get_ext(file) == file.ext

\* --------------------------------------------------------------- CodeGroup
VARIABLES
    files,      \* CodeGroup.files: path -> CodeFile
    skipped,    \* CodeGroup.skipped
    called,     \* call log: the last direct CodeGroup call
    presented,  \* call log: candidates that call handed to add_file
    result,     \* call log: its return value ("Ok" or the error kind)
    arg,        \* call log: the input of that call
    tried       \* call log: the interpretations it attempted, with their results

groupVars == <<files, skipped, called, presented, result, arg, tried>>

EmptyFiles == [p \in {} |-> 0]

num_files(fs) == Cardinality(DOMAIN fs)

add_file_overwrite(fs, name, file) ==
    [files |-> [p \in (DOMAIN fs) \cup {name} |-> IF p = name THEN file ELSE fs[p]],
     err |-> "Ok"]

add_file(fs, name, file) ==
    IF name \in DOMAIN fs
    THEN [files |-> fs, err |-> "Exists"]
    ELSE [files |-> fs @@ (name :> file), err |-> "Ok"]

\* Mutation: a failed insertion undoes the insertions made before it.
RECURSIVE AddFiles_rollback(_, _, _, _)
AddFiles_rollback(fs, list, lo, hi) ==
    IF lo > hi THEN [files |-> fs, err |-> "Ok"]
    ELSE IF lo = hi THEN add_file(fs, list[lo].name, list[lo].file)
    ELSE LET mid == (lo + hi) \div 2
             a == AddFiles_rollback(fs, list, lo, mid)
             b == AddFiles_rollback(a.files, list, mid + 1, hi)
         IN  IF a.err # "Ok" THEN [files |-> fs, err |-> a.err]
             ELSE IF b.err # "Ok" THEN [files |-> fs, err |-> b.err]
             ELSE b

\* The `for ... { self.add_file(..)?; }` loop of import_upload/import_remote
\* over list[lo..hi], in order, returning at the first error.  The range is
\* walked by halves so that the evaluation depth stays logarithmic.
RECURSIVE AddFiles(_, _, _, _)
AddFiles(fs, list, lo, hi) ==
    IF lo > hi THEN [files |-> fs, err |-> "Ok"]
    ELSE IF lo = hi THEN add_file(fs, list[lo].name, list[lo].file)
    ELSE LET mid == (lo + hi) \div 2
             a == AddFiles(fs, list, lo, mid)
         IN  IF a.err # "Ok" THEN a ELSE AddFiles(a.files, list, mid + 1, hi)

\* ----------------------------------------------------------------- uploads
\* Result<Option<Vec<..>>> of a producer, with the skipped flag it leaves.
ProdErr(kind, sk) == [res |-> "Err", err |-> kind, list |-> <<>>, skipped |-> sk]

ProdNone(sk) == [res |-> "None", err |-> "Ok", list |-> <<>>, skipped |-> sk]

ProdSome(list, sk) == [res |-> "Some", err |-> "Ok", list |-> list, skipped |-> sk]

\* Loop state of the producers: stop is set by `break` and by `return Err`.
Going(acc, sk) == [stop |-> FALSE, res |-> "Some", err |-> "Ok", list |-> acc, skipped |-> sk]
Broke(acc, sk) == [stop |-> TRUE, res |-> "Some", err |-> "Ok", list |-> acc, skipped |-> sk]
Threw(kind, sk) == [stop |-> TRUE, res |-> "Err", err |-> kind, list |-> <<>>, skipped |-> sk]

\* Mutation: the size is tested before the extension.
ExtractEntry_sizeFirst(e, acc, sk) ==
    IF ~e.is_file THEN Going(acc, sk)
    ELSE IF e.size > MAX_FILE_SIZE
    THEN Going(acc, TRUE)
    ELSE IF e.name.ext = "" \/ e.name.ext \notin LANGUAGE_MAP
    THEN Going(acc, sk)
    ELSE IF ~e.text_ok
    THEN Threw("Upload", sk)
    ELSE LET acc2 == Append(acc, [name |-> e.name,
                                  file |-> new_local(e.name.ext, [size |-> e.size, id |-> e.cid])])
         IN  IF Len(acc2) >= MAX_NUM_FILES THEN Broke(acc2, sk) ELSE Going(acc2, sk)

\* One loop iteration shared by the archive decoders: e is the decoded
\* entry, acc the name_data_list so far, sk the skipped flag.
ExtractEntry(e, acc, sk) ==
    IF ~e.is_file \/ e.name.ext = "" \/ e.name.ext \notin LANGUAGE_MAP
    THEN Going(acc, sk)
    ELSE IF e.size > MAX_FILE_SIZE
    THEN Going(acc, TRUE)
    ELSE IF ~e.text_ok
    THEN Threw("Upload", sk)
    ELSE LET acc2 == Append(acc, [name |-> e.name,
                                  file |-> new_local(e.name.ext, [size |-> e.size, id |-> e.cid])])
         IN  IF Len(acc2) >= MAX_NUM_FILES THEN Broke(acc2, sk) ELSE Going(acc2, sk)

\* The decoders' loop over entries[lo..hi], in order, walked by halves.
RECURSIVE ExtractEntries(_, _, _, _, _)
ExtractEntries(entries, lo, hi, acc, sk) ==
    IF lo > hi THEN Going(acc, sk)
    ELSE IF lo = hi THEN ExtractEntry(entries[lo], acc, sk)
    ELSE LET mid == (lo + hi) \div 2
             a == ExtractEntries(entries, lo, mid, acc, sk)
         IN  IF a.stop THEN a ELSE ExtractEntries(entries, mid + 1, hi, a.list, a.skipped)

extract_archive(file, sk) ==
    IF file.name = EmptyName THEN ProdErr("Parse", sk)
    ELSE IF file.name.ext = "" \/ file.name.ext \notin ArchiveExts THEN ProdNone(sk)
    ELSE IF ~file.read_ok THEN ProdErr("Parse", sk)
    ELSE IF ~file.container_ok THEN ProdErr("Upload", sk)
    ELSE LET r == ExtractEntries(file.entries, 1, Len(file.entries), <<>>, sk) IN
         IF r.res = "Err" THEN ProdErr(r.err, r.skipped)
         ELSE IF r.list = <<>> THEN ProdErr("Upload", r.skipped)
         ELSE ProdSome(r.list, r.skipped)

ListUploadFile(f, acc, sk) ==
    IF f.name = EmptyName
    THEN Threw("Parse", sk)
    ELSE IF f.name.ext = "" \/ f.name.ext \notin LANGUAGE_MAP
    THEN Going(acc, sk)
    ELSE IF f.size > MAX_FILE_SIZE
    THEN Going(acc, TRUE)
    ELSE IF ~f.read_ok
    THEN Threw("Parse", sk)
    ELSE LET acc2 == Append(acc, [name |-> f.name,
                                  file |-> new_local(f.name.ext, [size |-> f.size, id |-> f.cid])])
         IN  IF Len(acc2) >= MAX_NUM_FILES THEN Broke(acc2, sk) ELSE Going(acc2, sk)

\* The loop of list_upload_files over ups[lo..hi], in order, walked by halves.
RECURSIVE ListUploadLoop(_, _, _, _, _)
ListUploadLoop(ups, lo, hi, acc, sk) ==
    IF lo > hi THEN Going(acc, sk)
    ELSE IF lo = hi THEN ListUploadFile(ups[lo], acc, sk)
    ELSE LET mid == (lo + hi) \div 2
             a == ListUploadLoop(ups, lo, mid, acc, sk)
         IN  IF a.stop THEN a ELSE ListUploadLoop(ups, mid + 1, hi, a.list, a.skipped)

list_upload_files(ups, sk) ==
    LET r == ListUploadLoop(ups, 1, Len(ups), <<>>, sk) IN
    IF r.res = "Err" THEN ProdErr(r.err, r.skipped)
    ELSE IF r.list = <<>> THEN ProdErr("Upload", r.skipped)
    ELSE ProdSome(r.list, r.skipped)

\* ------------------------------------------------------------------ remote
GITHUB_HOST_STR == "github.com"


\* Ok(path) or the error kind.
validate_file_url(url) ==
    IF url.scheme \notin {"http", "https"} THEN "Parse"
    ELSE IF url.name.ext = "" THEN "Parse"
    ELSE IF url.name.ext \notin LANGUAGE_MAP THEN "Exten"
    ELSE "Ok"

\* Mutation: after a redirect the first URL is kept with the second response.
handle_redirection_keepsUrl(url) ==
    IF url.head.status = "redirect"
    THEN IF url.head.location \in {"abs", "rel"}
         THEN IF url.target.head.status = "neterr"
              THEN [err |-> "Status", url |-> url, resp |-> url.head]
              ELSE [err |-> "Ok", url |-> url, resp |-> url.target.head]
         ELSE [err |-> "Status", url |-> url, resp |-> url.head]
    ELSE [err |-> "Ok", url |-> url, resp |-> url.head]

\* url.head is the response to the first probe; url.target the URL (with its
\* own probe response) a Location header resolves to.
handle_redirection(url) ==
    IF url.head.status = "redirect"
    THEN IF url.head.location \in {"abs", "rel"}
         THEN IF url.target.head.status = "neterr"
              THEN [err |-> "Status", url |-> url, resp |-> url.head]
              ELSE [err |-> "Ok", url |-> url.target, resp |-> url.target.head]
         ELSE [err |-> "Status", url |-> url, resp |-> url.head]
    ELSE [err |-> "Ok", url |-> url, resp |-> url.head]

\* Mutation: a response without a content type is taken for a file.
head_single_file_anyType(url, sk) ==
    IF url.head.status = "neterr" THEN ProdErr("Status", sk)
    ELSE LET h == handle_redirection(url) IN
         IF h.err # "Ok" THEN ProdErr(h.err, sk)
         ELSE IF h.resp.status # "success" THEN ProdErr("Status", sk)
         ELSE IF h.resp.ctype = "html" THEN ProdNone(sk)
         ELSE LET approx_size == IF h.resp.length >= 0 THEN h.resp.length ELSE 0 IN
              IF approx_size > MAX_FILE_SIZE THEN ProdErr("Limit", TRUE)
              ELSE IF validate_file_url(h.url) # "Ok"
              THEN ProdErr(validate_file_url(h.url), sk)
              ELSE ProdSome(<<[name |-> h.url.name,
                               file |-> new_remote(h.url, approx_size)]>>, sk)

head_single_file(url, sk) ==
    IF url.head.status = "neterr" THEN ProdErr("Status", sk)
    ELSE LET h == handle_redirection(url) IN
         IF h.err # "Ok" THEN ProdErr(h.err, sk)
         ELSE IF h.resp.status # "success" THEN ProdErr("Status", sk)
         ELSE IF h.resp.ctype = "none" THEN ProdNone(sk)
         ELSE IF h.resp.ctype = "html" THEN ProdNone(sk)
         ELSE LET approx_size == IF h.resp.length >= 0 THEN h.resp.length ELSE 0 IN
              IF approx_size > MAX_FILE_SIZE THEN ProdErr("Limit", TRUE)
              ELSE IF validate_file_url(h.url) # "Ok"
              THEN ProdErr(validate_file_url(h.url), sk)
              ELSE ProdSome(<<[name |-> h.url.name,
                               file |-> new_remote(h.url, approx_size)]>>, sk)

NonEmptySegs(segs) == SelectSeq(segs, LAMBDA s : s # "")

Take4(segs) == IF Len(segs) > 4 THEN SubSeq(segs, 1, 4) ELSE segs

\* [err, owner, repo, tree]; meta is the repository-metadata response.
dissect_github_url(url) ==
    LET segs == Take4(NonEmptySegs(url.segs)) IN
    IF Len(segs) < 2 THEN [err |-> "GitHub", owner |-> "", repo |-> "", tree |-> 0]
    ELSE IF ((Len(segs) > 2 /\ segs[3] # "tree") \/ Len(segs) > 4) /\ segs[Len(segs)] # ""
    THEN [err |-> "GitHub", owner |-> "", repo |-> "", tree |-> 0]
    ELSE IF Len(segs) >= 4 /\ segs[3] = "tree"
    THEN [err |-> "Ok", owner |-> segs[1], repo |-> segs[2], tree |-> url.refs[segs[4]]]
    ELSE IF url.meta.status = "neterr"
    THEN [err |-> "Status", owner |-> "", repo |-> "", tree |-> 0]
    ELSE IF url.meta.status # "success"
    THEN [err |-> "GitHub", owner |-> "", repo |-> "", tree |-> 0]
    ELSE [err |-> "Ok", owner |-> segs[1], repo |-> segs[2], tree |-> url.meta.default_branch]

\* Mutation: the path of a blob leaves out the directory of its tree.
TreeEntry_noDir(e, dir, st, root_sha, repo) ==
    IF e.type = "blob"
    THEN IF e.name.ext = "" \/ e.name.ext \notin LANGUAGE_MAP
         THEN st
         ELSE LET this_path == [dir |-> <<repo>>, stem |-> e.name.stem, ext |-> e.name.ext]
                  raw_url == [scheme |-> "https",
                              name |-> [dir |-> <<>>, stem |-> e.name.stem, ext |-> e.name.ext],
                              sha |-> root_sha, id |-> e.sha]
                  approx_size == IF e.size >= 0 THEN e.size ELSE 0
              IN  IF approx_size > MAX_FILE_SIZE
                  THEN [st EXCEPT !.skipped = TRUE]
                  ELSE LET acc2 == Append(st.list, [name |-> this_path,
                                                    file |-> new_remote(raw_url, approx_size)])
                       IN  [st EXCEPT !.list = acc2, !.done = Len(acc2) >= MAX_NUM_FILES]
    ELSE IF e.type = "tree"
    THEN [st EXCEPT !.q = Append(st.q, [path |-> dir \o <<e.dname>>, tree |-> e.sha])]
    ELSE st

\* The entries loop of one tree response.  dir is the directory path of the
\* tree, q the BFS queue, acc the path_info_list.
TreeEntry(e, dir, st, root_sha, repo) ==
    IF e.type = "blob"
    THEN IF e.name.ext = "" \/ e.name.ext \notin LANGUAGE_MAP
         THEN st
         ELSE LET this_path == [dir |-> <<repo>> \o dir, stem |-> e.name.stem, ext |-> e.name.ext]
                  raw_url == [scheme |-> "https",
                              name |-> [dir |-> dir, stem |-> e.name.stem, ext |-> e.name.ext],
                              sha |-> root_sha, id |-> e.sha]
                  approx_size == IF e.size >= 0 THEN e.size ELSE 0
              IN  IF approx_size > MAX_FILE_SIZE
                  THEN [st EXCEPT !.skipped = TRUE]
                  ELSE LET acc2 == Append(st.list, [name |-> this_path,
                                                    file |-> new_remote(raw_url, approx_size)])
                       IN  [st EXCEPT !.list = acc2, !.done = Len(acc2) >= MAX_NUM_FILES]
    ELSE IF e.type = "tree"
    THEN [st EXCEPT !.q = Append(st.q, [path |-> dir \o <<e.dname>>, tree |-> e.sha])]
    ELSE st

\* The `for entry in resp.tree` loop over entries[lo..hi], in order, walked
\* by halves; st is [done, q, list, skipped].
RECURSIVE TreeEntries(_, _, _, _, _, _, _)
TreeEntries(entries, lo, hi, dir, st, root_sha, repo) ==
    IF lo > hi THEN st
    ELSE IF lo = hi THEN TreeEntry(entries[lo], dir, st, root_sha, repo)
    ELSE LET mid == (lo + hi) \div 2
             a == TreeEntries(entries, lo, mid, dir, st, root_sha, repo)
         IN  IF a.done THEN a ELSE TreeEntries(entries, mid + 1, hi, dir, a, root_sha, repo)

\* Mutation: reaching the cap ends the loop over the entries of one tree, and
\* the traversal goes on with the next tree of the queue.
RECURSIVE bfs_traverse_tree_goesOn(_, _, _, _, _, _)
bfs_traverse_tree_goesOn(trees, q, acc, sk, root_sha, repo) ==
    IF q = <<>> THEN ProdSome(acc, sk)
    ELSE LET path == Head(q).path
             resp == trees[Head(q).tree]
         IN  IF resp.status = "neterr" THEN ProdErr("Status", sk)
             ELSE IF resp.status # "success" THEN ProdErr("GitHub", sk)
             ELSE LET root2 == IF root_sha = 0 THEN resp.sha ELSE root_sha
                      r == TreeEntries(resp.entries, 1, Len(resp.entries), path,
                                       [done |-> FALSE, q |-> Tail(q), list |-> acc, skipped |-> sk],
                                       root2, repo)
                  IN  bfs_traverse_tree_goesOn(trees, r.q, r.list, r.skipped, root2, repo)

\* trees maps a tree reference to the "get a tree" response for it.
RECURSIVE bfs_traverse_tree(_, _, _, _, _, _)
bfs_traverse_tree(trees, q, acc, sk, root_sha, repo) ==
    IF q = <<>> THEN ProdSome(acc, sk)
    ELSE LET path == Head(q).path
             resp == trees[Head(q).tree]
         IN  IF resp.status = "neterr" THEN ProdErr("Status", sk)
             ELSE IF resp.status # "success" THEN ProdErr("GitHub", sk)
             ELSE LET root2 == IF root_sha = 0 THEN resp.sha ELSE root_sha
                      r == TreeEntries(resp.entries, 1, Len(resp.entries), path,
                                       [done |-> FALSE, q |-> Tail(q), list |-> acc, skipped |-> sk],
                                       root2, repo)
                  IN  IF r.done THEN ProdSome(r.list, r.skipped)
                      ELSE bfs_traverse_tree(trees, r.q, r.list, r.skipped, root2, repo)

list_github_repo(url, sk) ==
    IF url.scheme \notin {"http", "https"} THEN ProdErr("Parse", sk)
    ELSE IF url.host # GITHUB_HOST_STR THEN ProdNone(sk)
    ELSE LET d == dissect_github_url(url) IN
         IF d.err # "Ok" THEN ProdErr(d.err, sk)
         ELSE LET r == bfs_traverse_tree(url.trees, <<[path |-> <<>>, tree |-> d.tree]>>,
                                         <<>>, sk, 0, d.repo)
              IN  IF r.res = "Err" THEN r
                  ELSE IF r.list = <<>> THEN ProdErr("GitHub", r.skipped)
                  ELSE r

\* Result of an import call: the new CodeGroup, the returned value and the
\* list that was iterated into add_file.
ImportOutcome(fs, sk, list, err) ==
    [files |-> fs, skipped |-> sk, presented |-> list, result |-> err, tried |-> <<>>]

\* One interpretation of the input (archive, list, github, single) and the
\* Result<Option<..>> it returned.
Attempt(interp, r) == [interp |-> interp, res |-> r.res, err |-> r.err]

Tried(o, t) == [o EXCEPT !.tried = t]

AddProduced(fs, r) ==
    LET a == AddFiles(fs, r.list, 1, Len(r.list))
    IN  ImportOutcome(a.files, r.skipped, r.list, a.err)

\* Mutation: the pasted text replaces whatever was imported before.
import_textbox_replaces(fs, sk, content) ==
    LET cand == [name |-> TextboxPath, file |-> new_local("textbox", content)]
        a == add_file(EmptyFiles, cand.name, cand.file)
    IN  ImportOutcome(a.files, sk, <<cand>>, a.err)

import_textbox(fs, sk, content) ==
    LET cand == [name |-> TextboxPath, file |-> new_local("textbox", content)]
        a == add_file(fs, cand.name, cand.file)
    IN  ImportOutcome(a.files, sk, <<cand>>, a.err)

import_upload(fs, sk, ups) ==
    LET ar == IF Len(ups) = 1 THEN extract_archive(ups[1], sk) ELSE ProdNone(sk)
        t1 == IF Len(ups) = 1 THEN <<Attempt("archive", ar)>> ELSE <<>>
    IN  IF ar.res = "Err" THEN Tried(ImportOutcome(fs, ar.skipped, <<>>, ar.err), t1)
        ELSE IF ar.res = "Some" THEN Tried(AddProduced(fs, ar), t1)
        ELSE LET lr == list_upload_files(ups, ar.skipped)
                 t2 == Append(t1, Attempt("list", lr))
             IN  IF lr.res = "Err" THEN Tried(ImportOutcome(fs, lr.skipped, <<>>, lr.err), t2)
                 ELSE Tried(AddProduced(fs, lr), t2)

\* url.parse is the outcome of Url::parse (with the https:// retry folded in).
import_remote(fs, sk, url) ==
    IF url.parse # "ok" THEN ImportOutcome(fs, sk, <<>>, "Parse")
    ELSE LET gr == list_github_repo(url, sk)
             t1 == <<Attempt("github", gr)>>
         IN  IF gr.res = "Err" THEN Tried(ImportOutcome(fs, gr.skipped, <<>>, gr.err), t1)
             ELSE IF gr.res = "Some" THEN Tried(AddProduced(fs, gr), t1)
             ELSE LET hr == head_single_file(url, gr.skipped)
                      t2 == Append(t1, Attempt("single", hr))
                  IN  IF hr.res = "Err"
                      THEN Tried(ImportOutcome(fs, hr.skipped, <<>>, hr.err), t2)
                      ELSE IF hr.res = "Some" THEN Tried(AddProduced(fs, hr), t2)
                      ELSE Tried(ImportOutcome(fs, hr.skipped, <<>>, "Parse"), t2)

\* Mutation: a file of unknown size counts as empty.
total_size_known(fs) ==
    LET RECURSIVE Known(_)
        Known(S) ==
            IF S = {} THEN 0
            ELSE LET p == CHOOSE x \in S : TRUE
                 IN  (IF get_size(fs[p]) = NoSize THEN 0 ELSE get_size(fs[p])) + Known(S \ {p})
    IN  Known(DOMAIN fs)

\* files.values().map(get_size).sum::<Option<usize>>(): None as soon as one
\* size is None, the sum of the sizes otherwise.
total_size(fs) ==
    LET RECURSIVE SumFrom(_, _)
        SumFrom(S, acc) ==
            IF S = {} THEN acc
            ELSE LET p == CHOOSE x \in S : TRUE
                 IN  IF get_size(fs[p]) = NoSize THEN NoSize
                     ELSE SumFrom(S \ {p}, acc + get_size(fs[p]))
    IN  SumFrom(DOMAIN fs, 0)

\* Mutation: the skipped flag survives the reset.
reset_keepsSkipped == [files |-> EmptyFiles, skipped |-> skipped]

reset == [files |-> EmptyFiles, skipped |-> FALSE]

\* ------------------------------------------------------------ sorted_files
\* Rank of a path component in string order, for the strings the inputs use.
StrOrder == <<"", ".png", ".py", ".rs", "r", "src">>

StrRank(s) == CHOOSE i \in 1..Len(StrOrder) : StrOrder[i] = s

PathKey(p) == [i \in 1..Len(p.dir) |-> StrRank(p.dir[i])] \o <<p.stem, StrRank(p.ext)>>

RECURSIVE SeqLeq(_, _)
SeqLeq(a, b) ==
    IF a = <<>> THEN TRUE
    ELSE IF b = <<>> THEN FALSE
    ELSE IF Head(a) # Head(b) THEN Head(a) < Head(b)
    ELSE SeqLeq(Tail(a), Tail(b))

RECURSIVE SortPaths(_)
SortPaths(S) ==
    IF S = {} THEN <<>>
    ELSE LET m == CHOOSE x \in S : \A y \in S : SeqLeq(PathKey(x), PathKey(y))
         IN  <<m>> \o SortPaths(S \ {m})

sorted_files(fs) == SortPaths(DOMAIN fs)

\* ------------------------------------------------------------ wizard state
VARIABLES
    stage,            \* StepStage
    api_provider,     \* ApiProvider ("Null", "Free" or a keyed provider)
    api_key_vstate,   \* ValidationState of step 1
    api_client,       \* Option<ApiClient>: 0 is None, otherwise a client id
    key_validating,   \* spawned key tasks awaiting ApiClient::new
    key_delaying,     \* spawned key tasks in the delay before stage.set(ApiDone)
    num_clients,      \* clients created so far
    import_method,    \* ImportMethod
    code_in_vstate,   \* ValidationState of step 2
    import_task,      \* the spawned import task holding code_group.write()
    task_queue,       \* TaskQueue: sequence of row ids
    file_results,     \* FileResults: sequence of row ids
    rows,             \* row id -> [path, file] of the (path, file, status) triple
    status,           \* row id -> DetectionStatus
    num_finished,
    detection_cp,
    nothing_to_retry,
    sched,            \* detection_analysis_task: [pc, row, client]
    panicked,         \* a signal was written while a write guard was held
    polls,            \* scheduler loop iterations started (observer)
    stub              \* score of the classification stub, -1 for a live provider

wizardVars == <<stage, api_provider, api_key_vstate, api_client, key_validating,
                key_delaying, num_clients,
                import_method, code_in_vstate, import_task>>

detectVars == <<task_queue, file_results, rows, status, num_finished, detection_cp,
                nothing_to_retry>>

vars == <<groupVars, wizardVars, detectVars, sched, panicked, polls, stub>>

\* StepStage derives PartialOrd: Initial < ApiDone < CodeGot.
StageRank(s) == CASE s = "Initial" -> 0 [] s = "ApiDone" -> 1 [] s = "CodeGot" -> 2

Pending == [tag |-> "Pending", score |-> 0, msg |-> ""]

Flying == [tag |-> "Flying", score |-> 0, msg |-> ""]

Success(percent) == [tag |-> "Success", score |-> percent, msg |-> "Reasoning"]

Failure(msg) == [tag |-> "Failure", score |-> 0, msg |-> msg]

NoImport == [phase |-> "none", kind |-> "Null", input |-> <<>>]

Asleep == [pc |-> "sleep", row |-> 0, client |-> 0]

Min(a, b) == IF a < b THEN a ELSE b

\* Mutation: the score is cast to u8 without being clamped.
output_parse_pair_cast(n) == n % 256

\* cmp::min(n, 100) as u8 in the adapters' output_parse_pair.
output_parse_pair(n) == Min(n, 100)

\* client.call mapped through detection_api_call: out is the provider's
\* answer.  A score that as_u64 refuses (n < 0 stands for a negative or
\* fractional number) is a parse error.
detection_api_call(out) ==
    IF out.kind = "score"
    THEN IF out.n >= 0 THEN Success(output_parse_pair(out.n)) ELSE Failure("parse")
    ELSE IF out.kind = "Parse" THEN Failure("parse")
    ELSE Failure("status")

Init ==
    /\ files = EmptyFiles
    /\ skipped = FALSE
    /\ called = "none"
    /\ presented = <<>>
    /\ result = "Ok"
    /\ arg = <<>>
    /\ tried = <<>>
    /\ stage = "Initial"
    /\ api_provider = "Null"
    /\ api_key_vstate = "Idle"
    /\ api_client = 0
    /\ key_validating = 0
    /\ key_delaying = 0
    /\ num_clients = 0
    /\ import_method = "Null"
    /\ code_in_vstate = "Idle"
    /\ import_task = NoImport
    /\ task_queue = <<>>
    /\ file_results = <<>>
    /\ rows = <<>>
    /\ status = <<>>
    /\ num_finished = 0
    /\ detection_cp = FALSE
    /\ nothing_to_retry = FALSE
    /\ sched = Asleep
    /\ panicked = FALSE
    /\ polls = 0
    /\ stub = -1

\* No handler runs while the scheduler is inside a synchronous section or
\* after the page has panicked.
UiCanRun == ~panicked /\ sched.pc # "noclient"

\* ------------------------------------------------------------------ step 1
handle_api_select_button(selected_provider) ==
    /\ UiCanRun
    /\ stage = "Initial"
    /\ api_provider' = selected_provider
    /\ api_key_vstate' = "Idle"
    /\ UNCHANGED <<groupVars, detectVars, sched, panicked, polls, stub, stage, api_client,
                   key_validating, key_delaying, num_clients, import_method,
                   code_in_vstate, import_task>>

\* key_ok: the key field is non-empty ASCII.
handle_api_key_submit(key_ok) ==
    /\ UiCanRun
    /\ stage = "Initial"
    /\ api_provider # "Null"
    /\ api_key_vstate \notin {"Pending", "Success"}
    /\ num_clients + key_validating < MaxClients
    /\ IF api_provider # "Free" /\ ~key_ok
       THEN /\ api_key_vstate' = "Failure"
            /\ UNCHANGED key_validating
       ELSE /\ api_key_vstate' = "Pending"
            /\ key_validating' = key_validating + 1
    /\ UNCHANGED <<groupVars, detectVars, sched, panicked, polls, stub, stage, api_provider,
                   api_client, key_delaying, num_clients, import_method, code_in_vstate,
                   import_task>>

\* The spawned task resumes from ApiClient::new(..).await.
KeyTaskValidated(ok) ==
    /\ UiCanRun
    /\ key_validating > 0
    /\ key_validating' = key_validating - 1
    /\ IF ok
       THEN /\ num_clients' = num_clients + 1
            /\ api_client' = num_clients + 1
            /\ api_key_vstate' = "Success"
            /\ key_delaying' = key_delaying + 1
       ELSE /\ api_key_vstate' = "Failure"
            /\ UNCHANGED <<num_clients, api_client, key_delaying>>
    /\ UNCHANGED <<groupVars, detectVars, sched, panicked, polls, stub, stage, api_provider,
                   import_method, code_in_vstate, import_task>>

\* Mutation: a row pushes itself onto the queue twice.
RegisterRows_twice(fs, cp) ==
    LET paths == sorted_files(fs)
        n == Len(rows)
        ids == [i \in 1..Len(paths) |-> n + i]
    IN  IF cp THEN UNCHANGED <<task_queue, file_results, rows, status>>
        ELSE /\ task_queue' = task_queue \o ids \o ids
             /\ file_results' = file_results \o ids
             /\ rows' = rows \o [i \in 1..Len(paths) |-> [path |-> paths[i], file |-> fs[paths[i]]]]
             /\ status' = status \o [i \in 1..Len(paths) |-> Pending]

\* Rows are rendered (and registered) whenever the stage signal is set to a
\* value >= CodeGot; cp is the completion flag at that moment.
RegisterRows(fs, cp) ==
    LET paths == sorted_files(fs)
        n == Len(rows)
        ids == [i \in 1..Len(paths) |-> n + i]
    IN  IF cp THEN UNCHANGED <<task_queue, file_results, rows, status>>
        ELSE /\ task_queue' = task_queue \o ids
             /\ file_results' = file_results \o ids
             /\ rows' = rows \o [i \in 1..Len(paths) |-> [path |-> paths[i], file |-> fs[paths[i]]]]
             /\ status' = status \o [i \in 1..Len(paths) |-> Pending]

\* The spawned task resumes from the delay and sets the stage.
KeyTaskProceed ==
    /\ UiCanRun
    /\ key_delaying > 0
    /\ key_delaying' = key_delaying - 1
    /\ stage' = "ApiDone"
    /\ UNCHANGED <<groupVars, detectVars, sched, panicked, polls, stub, api_provider,
                   api_key_vstate, api_client, key_validating, num_clients, import_method,
                   code_in_vstate, import_task>>

\* Mutation: the reset goes through while an import task holds the write guard.
handle_back_button_1_unguarded ==
    /\ UiCanRun
    /\ StageRank(stage) > StageRank("Initial")
    /\ api_provider # "Null"
    /\ api_key_vstate' = "Idle"
    /\ code_in_vstate' = "Idle"
    /\ files' = reset.files
    /\ skipped' = reset.skipped
    /\ task_queue' = <<>>
    /\ num_finished' = 0
    /\ detection_cp' = FALSE
    /\ file_results' = <<>>
    /\ stage' = "Initial"
    /\ UNCHANGED <<called, presented, result, arg, tried, rows, status, nothing_to_retry,
                   sched, polls, stub, panicked,
                   api_provider, api_client, key_validating, key_delaying, num_clients,
                   import_method, import_task>>

\* Step-1 Back (api_selection.rs).  code_group.update panics while an import
\* task holds the write guard.
handle_back_button_1 ==
    /\ UiCanRun
    /\ StageRank(stage) > StageRank("Initial")
    /\ api_provider # "Null"
    /\ api_key_vstate' = "Idle"
    /\ code_in_vstate' = "Idle"
    /\ IF import_task.phase # "none"
       THEN /\ panicked' = TRUE
            /\ UNCHANGED <<files, skipped, task_queue, num_finished, detection_cp,
                           file_results, stage>>
       ELSE /\ files' = reset.files
            /\ skipped' = reset.skipped
            /\ task_queue' = <<>>
            /\ num_finished' = 0
            /\ detection_cp' = FALSE
            /\ file_results' = <<>>
            /\ stage' = "Initial"
            /\ UNCHANGED panicked
    /\ UNCHANGED <<called, presented, result, arg, tried, rows, status, nothing_to_retry,
                   sched, polls, stub,
                   api_provider, api_client, key_validating, key_delaying, num_clients,
                   import_method, import_task>>

\* ------------------------------------------------------------------ step 2
handle_import_method_button(selected_method) ==
    /\ UiCanRun
    /\ stage = "ApiDone"
    /\ import_method' = selected_method
    /\ UNCHANGED <<groupVars, detectVars, sched, panicked, polls, stub, stage, api_provider,
                   api_key_vstate, api_client, key_validating, key_delaying, num_clients,
                   code_in_vstate, import_task>>

\* Number of rows the import could register when it completes.
RowsNeeded(kind, input) ==
    num_files(files) + (IF kind = "Upload" THEN Len(input) ELSE 1)

\* handle_code_url_submit / handle_code_text_submit / handle_code_files_upload:
\* input_ok is the handler's own check of the field (non-empty, ASCII).  The
\* spawned task starts with code_group.write(), which panics when another
\* import task still holds that guard.
ImportSubmit(kind, input, input_ok) ==
    /\ UiCanRun
    /\ stage = "ApiDone"
    /\ import_method = kind
    /\ kind \in {"UrlTo", "Paste"} => code_in_vstate \notin {"Pending", "Success"}
    /\ Len(rows) + RowsNeeded(kind, input) <= MaxCells
    /\ IF ~input_ok
       THEN /\ code_in_vstate' = "Failure"
            /\ UNCHANGED <<import_task, panicked>>
       ELSE /\ code_in_vstate' = "Pending"
            /\ IF import_task.phase # "none"
               THEN /\ panicked' = TRUE
                    /\ UNCHANGED import_task
               ELSE /\ import_task' = [phase |-> "running", kind |-> kind, input |-> input]
                    /\ UNCHANGED panicked
    /\ UNCHANGED <<groupVars, detectVars, sched, polls, stub, stage, api_provider,
                   api_key_vstate, api_client, key_validating, key_delaying, num_clients,
                   import_method>>

ImportCall(kind, input) ==
    IF kind = "Paste" THEN import_textbox(files, skipped, input)
    ELSE IF kind = "Upload" THEN import_upload(files, skipped, input)
    ELSE import_remote(files, skipped, input)

\* The import task resumes from code_group_inner.import_*(..).await.
ImportTaskDone ==
    /\ UiCanRun
    /\ import_task.phase = "running"
    /\ LET r == ImportCall(import_task.kind, import_task.input) IN
       /\ files' = r.files
       /\ skipped' = r.skipped
       /\ IF r.result = "Ok"
          THEN /\ code_in_vstate' = "Success"
               /\ import_task' = [import_task EXCEPT !.phase = "delay"]
          ELSE /\ code_in_vstate' = "Failure"
               /\ import_task' = NoImport
    /\ UNCHANGED <<called, presented, result, arg, tried, detectVars, sched, panicked, polls,
                   stub, stage,
                   api_provider, api_key_vstate, api_client, key_validating, key_delaying,
                   num_clients, import_method>>

\* The import task resumes from the delay, sets the stage, drops the guard;
\* the step-3 view is rendered and every row registers itself.
ImportTaskProceed ==
    /\ UiCanRun
    /\ import_task.phase = "delay"
    /\ import_task' = NoImport
    /\ stage' = "CodeGot"
    /\ RegisterRows(files, detection_cp)
    /\ UNCHANGED <<groupVars, num_finished, detection_cp, nothing_to_retry, sched,
                   panicked, polls, stub, api_provider, api_key_vstate, api_client,
                   key_validating, key_delaying, num_clients, import_method, code_in_vstate>>

\* Step-2 Back (code_retrieve.rs).
handle_back_button_2 ==
    /\ UiCanRun
    /\ StageRank(stage) > StageRank("ApiDone")
    /\ import_method # "Null"
    /\ code_in_vstate' = "Idle"
    /\ files' = reset.files
    /\ skipped' = reset.skipped
    /\ task_queue' = <<>>
    /\ num_finished' = 0
    /\ detection_cp' = FALSE
    /\ stage' = "ApiDone"
    /\ UNCHANGED <<called, presented, result, arg, tried, file_results, rows, status,
                   nothing_to_retry, sched,
                   panicked, polls, stub, api_provider, api_key_vstate, api_client,
                   key_validating, key_delaying, num_clients, import_method, import_task>>

\* --------------------------------------------------------------- scheduler
\* Lines 165-183: runs after the status of the awaited task has been set.
\* Yields the new api_client, num_finished and detection_cp.
\* Mutation: the client is restored whatever the stage.
FinishTask_restore(client) ==
    LET now_stage == stage
        back == IF api_client = 0 THEN client ELSE api_client
        fin == IF now_stage = "CodeGot" THEN num_finished + 1 ELSE num_finished
        cp == IF now_stage = "CodeGot" /\ fin >= num_files(files) THEN TRUE ELSE detection_cp
    IN  [api_client |-> back, num_finished |-> fin, detection_cp |-> cp]

\* Mutation: the counter is compared before it is incremented.
FinishTask_stale(client) ==
    LET now_stage == stage
        back == IF StageRank(now_stage) >= StageRank("ApiDone") /\ api_client = 0
                THEN client ELSE api_client
        fin == IF now_stage = "CodeGot" THEN num_finished + 1 ELSE num_finished
        cp == IF now_stage = "CodeGot" /\ num_finished >= num_files(files) THEN TRUE
              ELSE detection_cp
    IN  [api_client |-> back, num_finished |-> fin, detection_cp |-> cp]

\* Mutation: the restore does not look at what the slot holds.
FinishTask_overwrite(client) ==
    LET now_stage == stage
        back == IF StageRank(now_stage) >= StageRank("ApiDone") THEN client ELSE api_client
        fin == IF now_stage = "CodeGot" THEN num_finished + 1 ELSE num_finished
        cp == IF now_stage = "CodeGot" /\ fin >= num_files(files) THEN TRUE ELSE detection_cp
    IN  [api_client |-> back, num_finished |-> fin, detection_cp |-> cp]

FinishTask(client) ==
    LET now_stage == stage
        back == IF StageRank(now_stage) >= StageRank("ApiDone") /\ api_client = 0
                THEN client ELSE api_client
        fin == IF now_stage = "CodeGot" THEN num_finished + 1 ELSE num_finished
        cp == IF now_stage = "CodeGot" /\ fin >= num_files(files) THEN TRUE ELSE detection_cp
    IN  [api_client |-> back, num_finished |-> fin, detection_cp |-> cp]

\* Mutation: the scheduler takes the entry pushed last.
SchedPoll_popBack ==
    /\ ~panicked
    /\ sched.pc = "sleep"
    /\ IF task_queue = <<>>
       THEN UNCHANGED <<task_queue, status, api_client, sched>>
       ELSE LET row == task_queue[Len(task_queue)] IN
            /\ task_queue' = SubSeq(task_queue, 1, Len(task_queue) - 1)
            /\ status' = [status EXCEPT ![row] = Flying]
            /\ api_client' = 0
            /\ sched' = [pc |-> IF api_client = 0 THEN "noclient"
                                ELSE IF rows[row].file.origin = "Local" THEN "call"
                                ELSE "fetch",
                         row |-> row, client |-> api_client]
    /\ UNCHANGED <<groupVars, file_results, rows, num_finished, detection_cp,
                   nothing_to_retry, panicked, stub, stage, api_provider,
                   api_key_vstate, key_validating, key_delaying, num_clients,
                   import_method, code_in_vstate, import_task>>

\* The polling delay elapses; the head of the queue, if any, is popped, set
\* to Flying and the client is taken out of the shared slot.  A local file's
\* content is ready at once, a remote file's content is awaited.
SchedPoll ==
    /\ ~panicked
    /\ sched.pc = "sleep"
    /\ IF task_queue = <<>>
       THEN UNCHANGED <<task_queue, status, api_client, sched>>
       ELSE LET row == Head(task_queue) IN
            /\ task_queue' = Tail(task_queue)
            /\ status' = [status EXCEPT ![row] = Flying]
            /\ api_client' = 0
            /\ sched' = [pc |-> IF api_client = 0 THEN "noclient"
                                ELSE IF rows[row].file.origin = "Local" THEN "call"
                                ELSE "fetch",
                         row |-> row, client |-> api_client]
    /\ UNCHANGED <<groupVars, file_results, rows, num_finished, detection_cp,
                   nothing_to_retry, panicked, stub, stage, api_provider,
                   api_key_vstate, key_validating, key_delaying, num_clients,
                   import_method, code_in_vstate, import_task>>

\* The else-branch of `if let Some(client) = api_client_taken`.
SchedNoClient ==
    /\ ~panicked
    /\ sched.pc = "noclient"
    /\ status' = [status EXCEPT ![sched.row] = Failure("noclient")]
    /\ sched' = Asleep
    /\ UNCHANGED <<groupVars, wizardVars, task_queue, file_results, rows, num_finished,
                   detection_cp, nothing_to_retry, panicked, polls, stub>>

\* Mutation: the awaited task's status is never written back.
SchedSetAndFinish_keepFlying(st) ==
    LET f == FinishTask(sched.client) IN
    /\ UNCHANGED status
    /\ api_client' = f.api_client
    /\ num_finished' = f.num_finished
    /\ detection_cp' = f.detection_cp
    /\ sched' = Asleep

SchedSetAndFinish(st) ==
    LET f == FinishTask(sched.client) IN
    /\ status' = [status EXCEPT ![sched.row] = st]
    /\ api_client' = f.api_client
    /\ num_finished' = f.num_finished
    /\ detection_cp' = f.detection_cp
    /\ sched' = Asleep

\* Mutation: a content-fetch error ends the scheduler loop.
SchedFetchDone_stops(ok) ==
    /\ ~panicked
    /\ sched.pc = "fetch"
    /\ IF ok
       THEN /\ sched' = [sched EXCEPT !.pc = "call"]
            /\ UNCHANGED <<status, api_client, num_finished, detection_cp>>
       ELSE /\ status' = [status EXCEPT ![sched.row] = Failure("fetch")]
            /\ sched' = [sched EXCEPT !.pc = "stopped"]
            /\ UNCHANGED <<api_client, num_finished, detection_cp>>
    /\ UNCHANGED <<groupVars, task_queue, file_results, rows, nothing_to_retry, panicked,
                   polls, stub, stage, api_provider, api_key_vstate, key_validating,
                   key_delaying, num_clients, import_method, code_in_vstate, import_task>>

\* file.content(..).await resolves for a remote file.
SchedFetchDone(ok) ==
    /\ ~panicked
    /\ sched.pc = "fetch"
    /\ IF ok
       THEN /\ sched' = [sched EXCEPT !.pc = "call"]
            /\ UNCHANGED <<status, api_client, num_finished, detection_cp>>
       ELSE SchedSetAndFinish(Failure("fetch"))
    /\ UNCHANGED <<groupVars, task_queue, file_results, rows, nothing_to_retry, panicked,
                   polls, stub, stage, api_provider, api_key_vstate, key_validating,
                   key_delaying, num_clients, import_method, code_in_vstate, import_task>>

\* Mutation: when a call returns and the queue is not empty, the next entry is
\* taken at once, without the polling delay.
SchedCallDone_drains(out) ==
    /\ ~panicked
    /\ sched.pc = "call"
    /\ LET f == FinishTask(sched.client) IN
       /\ num_finished' = f.num_finished
       /\ detection_cp' = f.detection_cp
       /\ IF task_queue = <<>> \/ f.api_client = 0
          THEN /\ status' = [status EXCEPT ![sched.row] = detection_api_call(out)]
               /\ api_client' = f.api_client
               /\ sched' = Asleep
               /\ UNCHANGED task_queue
          ELSE LET row == Head(task_queue) IN
               /\ status' = [status EXCEPT ![sched.row] = detection_api_call(out),
                                           ![row] = Flying]
               /\ api_client' = 0
               /\ task_queue' = Tail(task_queue)
               /\ sched' = [pc |-> IF rows[row].file.origin = "Local" THEN "call" ELSE "fetch",
                            row |-> row, client |-> f.api_client]
    /\ UNCHANGED <<groupVars, file_results, rows, nothing_to_retry, panicked,
                   polls, stub, stage, api_provider, api_key_vstate, key_validating,
                   key_delaying, num_clients, import_method, code_in_vstate, import_task>>

\* detection_api_call(..).await resolves with the provider's answer.
SchedCallDone(out) ==
    /\ ~panicked
    /\ sched.pc = "call"
    /\ SchedSetAndFinish(detection_api_call(out))
    /\ UNCHANGED <<groupVars, task_queue, file_results, rows, nothing_to_retry, panicked,
                   polls, stub, stage, api_provider, api_key_vstate, key_validating,
                   key_delaying, num_clients, import_method, code_in_vstate, import_task>>

\* ------------------------------------------------------------------- retry
\* Mutation: retry stops at the first failure.
FailedRows_firstOnly ==
    LET f == SelectSeq(file_results, LAMBDA r : status[r].tag = "Failure")
    IN  IF f = <<>> THEN f ELSE <<f[1]>>

\* Mutation: retry also picks the files that succeeded.
FailedRows_andSucceeded ==
    SelectSeq(file_results, LAMBDA r : status[r].tag \in {"Failure", "Success"})

FailedRows == SelectSeq(file_results, LAMBDA r : status[r].tag = "Failure")

\* Mutation: the completion flag is cleared whether or not anything is retried.
handle_retry_button_clears ==
    /\ UiCanRun
    /\ StageRank(stage) >= StageRank("CodeGot")
    /\ detection_cp
    /\ LET retried == SelectSeq(file_results, LAMBDA r : status[r].tag = "Failure")
           num_retried == Len(retried)
       IN  /\ status' = [r \in DOMAIN status |->
                           IF \E i \in 1..num_retried : retried[i] = r THEN Pending
                           ELSE status[r]]
           /\ task_queue' = task_queue \o retried
           /\ nothing_to_retry' = (num_retried = 0)
           /\ num_finished' = num_finished - Min(num_retried, num_finished)
           /\ detection_cp' = FALSE
    /\ UNCHANGED <<groupVars, wizardVars, file_results, rows, sched, panicked, polls, stub>>

\* The Retry button is rendered while the step-3 view is shown and the
\* completion flag is set.
handle_retry_button ==
    /\ UiCanRun
    /\ StageRank(stage) >= StageRank("CodeGot")
    /\ detection_cp
    /\ LET retried == FailedRows
           num_retried == Len(retried)
       IN  /\ status' = [r \in DOMAIN status |->
                           IF \E i \in 1..num_retried : retried[i] = r THEN Pending
                           ELSE status[r]]
           /\ task_queue' = task_queue \o retried
           /\ IF num_retried > 0
              THEN /\ nothing_to_retry' = FALSE
                   /\ num_finished' = num_finished - Min(num_retried, num_finished)
                   /\ detection_cp' = FALSE
              ELSE /\ nothing_to_retry' = TRUE
                   /\ UNCHANGED <<num_finished, detection_cp>>
    /\ UNCHANGED <<groupVars, wizardVars, file_results, rows, sched, panicked, polls, stub>>

\* ------------------------------------------------------------------ inputs
StdFile(stem, ext, size, cid) ==
    [name |-> [dir |-> <<>>, stem |-> stem, ext |-> ext], size |-> size, cid |-> cid,
     read_ok |-> TRUE, container_ok |-> TRUE, entries |-> <<>>]

Entry(dir, stem, ext, size, cid) ==
    [name |-> [dir |-> dir, stem |-> stem, ext |-> ext], is_file |-> TRUE,
     size |-> size, cid |-> cid, text_ok |-> TRUE]

Archive(ext, ok, entries) ==
    [name |-> [dir |-> <<>>, stem |-> 900, ext |-> ext], size |-> 1000, cid |-> 900,
     read_ok |-> TRUE, container_ok |-> ok, entries |-> entries]

HeadResp(st, loc, ctype, len) ==
    [status |-> st, location |-> loc, ctype |-> ctype, length |-> len]

NoTrees == [t \in {} |-> 0]

NoRefs == [r \in {} |-> 0]

\* A non-GitHub URL to one remote file, answering its probe with head.
FileUrl(stem, ext, head) ==
    [parse |-> "ok", scheme |-> "https", host |-> "example.com", segs |-> <<"f">>,
     name |-> [dir |-> <<>>, stem |-> stem, ext |-> ext], sha |-> 0, id |-> stem,
     head |-> head,
     target |-> [scheme |-> "https", name |-> [dir |-> <<>>, stem |-> stem + 1, ext |-> ext],
                 sha |-> 0, id |-> stem + 1, head |-> HeadResp("success", "none", "text", 10)],
     meta |-> [status |-> "success", default_branch |-> 1], refs |-> NoRefs, trees |-> NoTrees]

Blob(stem, ext, size) ==
    [type |-> "blob", name |-> [stem |-> stem, ext |-> ext], dname |-> "", sha |-> 500 + stem,
     size |-> size]

Subtree(dname, sha) ==
    [type |-> "tree", name |-> [stem |-> 0, ext |-> ""], dname |-> dname, sha |-> sha,
     size |-> -1]

TreeResp(st, sha, entries) == [status |-> st, sha |-> sha, entries |-> entries]

\* A GitHub repository URL with path segments segs serving the given trees.
RepoUrl(segs, trees) ==
    [parse |-> "ok", scheme |-> "https", host |-> GITHUB_HOST_STR, segs |-> segs,
     name |-> [dir |-> <<>>, stem |-> 0, ext |-> ""], sha |-> 0, id |-> 0,
     head |-> HeadResp("success", "none", "html", -1),
     target |-> [scheme |-> "https", name |-> [dir |-> <<>>, stem |-> 0, ext |-> ""],
                 sha |-> 0, id |-> 0, head |-> HeadResp("success", "none", "html", -1)],
     meta |-> [status |-> "success", default_branch |-> 1],
     refs |-> [r \in {"main"} |-> 1], trees |-> trees]

\* Inputs of the wizard-level specification.
Providers == {"OpenAI"}

\* The textbox import is exercised by the direct calls of SpecGroup; to the
\* scheduler its file is a local file like an uploaded one.
Methods == {"UrlTo", "Upload"}

FileA == StdFile(1, ".rs", 50, 1)

FileB == StdFile(2, ".py", 60, 2)

SmallInputs(kind) ==
    IF kind = "Paste" THEN {[size |-> 50, id |-> 7]}
    ELSE IF kind = "Upload" THEN {<<FileA, FileB>>, <<FileB, FileB>>}
    ELSE {FileUrl(3, ".rs", HeadResp("success", "none", "text", -1))}

CallOutcomes ==
    {[kind |-> "score", n |-> 42], [kind |-> "Status", n |-> 0]}

\* ----------------------------------------------------------- specification
Next ==
    \/ \E p \in Providers : handle_api_select_button(p)
    \/ \E k \in BOOLEAN : handle_api_key_submit(k)
    \/ \E ok \in BOOLEAN : KeyTaskValidated(ok)
    \/ KeyTaskProceed
    \/ handle_back_button_1
    \/ \E m \in Methods : handle_import_method_button(m)
    \/ \E m \in Methods : \E in \in SmallInputs(m) : \E ok \in BOOLEAN : ImportSubmit(m, in, ok)
    \/ ImportTaskDone
    \/ ImportTaskProceed
    \/ handle_back_button_2
    \/ SchedPoll /\ UNCHANGED polls
    \/ SchedNoClient
    \/ \E ok \in BOOLEAN : SchedFetchDone(ok)
    \/ \E out \in CallOutcomes : SchedCallDone(out)
    \/ handle_retry_button

Spec == Init /\ [][Next]_vars

\* --------------------------------------- direct calls on one CodeGroup
Log(op, r) ==
    /\ files' = r.files
    /\ skipped' = r.skipped
    /\ called' = op
    /\ presented' = r.presented
    /\ result' = r.result
    /\ UNCHANGED <<arg, tried, wizardVars, detectVars, sched, panicked, polls, stub>>

CallImportTextbox(content) == Log("import_textbox", import_textbox(files, skipped, content))

CallImportUpload(ups) == Log("import_upload", import_upload(files, skipped, ups))

CallImportRemote(url) == Log("import_remote", import_remote(files, skipped, url))

CallReset == Log("reset", ImportOutcome(reset.files, reset.skipped, <<>>, "Ok"))

\* BlockLen standalone code files with consecutive names.
Block == [i \in 1..BlockLen |-> StdFile(1000 + i, ".rs", 50, 1000 + i)]

\* The same selection, but its last file repeats the name of the first, with
\* other content.
BlockDup ==
    [i \in 1..BlockLen |->
        IF i = BlockLen THEN StdFile(1001, ".rs", 70, 1000 + BlockLen) ELSE Block[i]]

\* One more admissible file than the cap.
LongList == [i \in 1..(MAX_NUM_FILES + 1) |-> StdFile(5000 + i, ".py", 10, 5000 + i)]

MixedList ==
    <<StdFile(11, ".rs", MAX_FILE_SIZE + 1, 11), StdFile(12, ".png", 9, 12),
      StdFile(13, ".rs", MAX_FILE_SIZE, 13)>>

ZipEntries ==
    <<Entry(<<"src">>, 1, ".rs", 50, 21), Entry(<<>>, 2, ".png", 5 * MAX_FILE_SIZE, 22),
      [Entry(<<>>, 3, "", 0, 23) EXCEPT !.is_file = FALSE],
      Entry(<<>>, 13, ".rs", 40, 24), Entry(<<>>, 14, ".py", 30, 25)>>

GroupTexts == {[size |-> 50, id |-> 7], [size |-> MAX_FILE_SIZE + 1, id |-> 8]}

GroupUploads ==
    {Block, BlockDup, LongList, MixedList, <<Archive(".zip", TRUE, ZipEntries)>>,
          <<Archive(".7z", FALSE, <<>>)>>, <<Archive(".tar", TRUE, <<>>)>>}

RepoTrees ==
    (1 :> TreeResp("success", 77,
                   <<Blob(1, ".rs", 50), Blob(2, ".py", -1), Blob(3, ".png", 10),
                     Blob(4, ".rs", MAX_FILE_SIZE + 1), Subtree("src", 2)>>))
    @@ (2 :> TreeResp("success", 88, <<Blob(1, ".rs", 30)>>))

GroupUrls ==
    {FileUrl(31, ".rs", HeadResp("success", "none", "text", 500)),
     FileUrl(31, ".rs", HeadResp("success", "none", "text", MAX_FILE_SIZE + 1)),
     FileUrl(33, ".rs", HeadResp("redirect", "abs", "text", -1)),
     FileUrl(35, ".rs", HeadResp("success", "none", "html", -1)),
     RepoUrl(<<"o", "r">>, RepoTrees)}

NextGroup ==
    \/ \E c \in GroupTexts : CallImportTextbox(c)
    \/ \E u \in GroupUploads : CallImportUpload(u)
    \/ \E u \in GroupUrls : CallImportRemote(u)
    \/ CallReset

SpecGroup == Init /\ [][NextGroup]_vars

\* ------------------------------- direct calls with their inputs logged
\* A pasted text is [lead, body, trail, id]: the numbers of leading whitespace
\* characters, of characters from the first to the last non-whitespace one,
\* and of trailing whitespace characters; id identifies the text.
\* Mutation: the text is taken as typed.
trim_none(text) == [size |-> text.lead + text.body + text.trail, id |-> text.id]

\* str::trim of the textbox value.
trim(text) == [size |-> text.body, id |-> text.id]

\* handle_code_text_submit with the import its task runs: the trimmed text is
\* refused when empty, and handed to import_textbox otherwise.
text_submit(fs, sk, text) ==
    LET code_text == trim(text) IN
    IF code_text.size = 0 THEN ImportOutcome(fs, sk, <<>>, "Parse")
    ELSE import_textbox(fs, sk, code_text)

LogCall(op, a, r) ==
    /\ files' = r.files
    /\ skipped' = r.skipped
    /\ called' = op
    /\ presented' = r.presented
    /\ result' = r.result
    /\ arg' = a
    /\ tried' = r.tried
    /\ UNCHANGED <<wizardVars, detectVars, sched, panicked, polls, stub>>

ApplyTextSubmit(text) == LogCall("handle_code_text_submit", text, text_submit(files, skipped, text))

ApplyUpload(ups) == LogCall("import_upload", ups, import_upload(files, skipped, ups))

ApplyRemote(url) == LogCall("import_remote", url, import_remote(files, skipped, url))

ApplyReset == LogCall("reset", <<>>, ImportOutcome(reset.files, reset.skipped, <<>>, "Ok"))

Text(lead, body, trail, id) == [lead |-> lead, body |-> body, trail |-> trail, id |-> id]

\* A plain text, a padded one, a whitespace-only one and the empty one.
CallTexts == {Text(0, 50, 0, 7), Text(2, 50, 1, 8), Text(3, 0, 0, 9), Text(0, 0, 0, 10)}

\* Archive entries none of which is admissible: another kind of file, a
\* directory, a file without extension.
NoCodeEntries ==
    <<Entry(<<>>, 2, ".png", 10, 22), [Entry(<<"src">>, 0, "", 0, 23) EXCEPT !.is_file = FALSE],
      Entry(<<>>, 4, "", 10, 24)>>

\* The only code entry is over the size cap.
OversizeEntries == <<Entry(<<>>, 5, ".rs", MAX_FILE_SIZE + 1, 25)>>

CallUploads ==
    {<<FileA, FileB>>, <<FileA>>, <<StdFile(12, ".png", 9, 12)>>, <<StdFile(15, ".rs", 0, 15)>>,
     <<Archive(".zip", TRUE, <<Entry(<<>>, 1, ".rs", 40, 21), Entry(<<>>, 6, ".py", 40, 26)>>)>>,
     <<Archive(".zip", TRUE, NoCodeEntries)>>,
     <<Archive(".tgz", TRUE, OversizeEntries)>>,
     <<Archive(".tar", TRUE, <<>>)>>,
     <<Archive(".7z", FALSE, NoCodeEntries)>>}

SmallTrees ==
    (1 :> TreeResp("success", 77, <<Blob(1, ".rs", 50), Blob(3, ".png", 10), Subtree("src", 2)>>))
    @@ (2 :> TreeResp("success", 88, <<Blob(2, ".py", -1)>>))

\* A github.com URL that is not a repository page but answers the probe as a
\* raw file would.
HostFile(segs) ==
    [RepoUrl(segs, NoTrees) EXCEPT !.name = [dir |-> <<>>, stem |-> 40, ext |-> ".rs"],
                                   !.id = 40,
                                   !.head = HeadResp("success", "none", "text", 10)]

CallUrls ==
    {FileUrl(3, ".rs", HeadResp("success", "none", "text", 500)),
     FileUrl(5, ".rs", HeadResp("success", "none", "html", -1)),
     FileUrl(7, ".png", HeadResp("success", "none", "text", 10)),
     RepoUrl(<<"o", "r">>, SmallTrees),
     RepoUrl(<<"o", "r", "tree", "main">>, SmallTrees),
     RepoUrl(<<"o", "r", "tree", "main", "src", "lib.rs">>, SmallTrees),
     RepoUrl(<<"o", "r", "blob", "main", "lib.rs">>, SmallTrees),
     RepoUrl(<<"o">>, SmallTrees),
     RepoUrl(<<>>, SmallTrees),
     HostFile(<<"lib.rs">>)}

NextCalls ==
    \/ \E t \in CallTexts : ApplyTextSubmit(t)
    \/ \E u \in CallUploads : ApplyUpload(u)
    \/ \E u \in CallUrls : ApplyRemote(u)
    \/ ApplyReset

SpecCalls == Init /\ [][NextCalls]_vars

\* --------------------------------------- imports of generated repositories
\* The blobs one tree object may list: none; a code file and a picture; an
\* oversize code file, a code file of unknown size and one exactly at the cap.
Fills ==
    {<<>>,
     <<Blob(1, ".rs", 50), Blob(2, ".png", 10)>>,
     <<Blob(3, ".py", MAX_FILE_SIZE + 1), Blob(4, ".py", -1), Blob(1, ".rs", MAX_FILE_SIZE)>>}

\* Tree t lists its first subtree (tree 2t, "src"), its blobs, a submodule
\* and its second subtree (tree 2t+1, "r"); a blob's SHA tells its tree.
EntriesOf(t, fill) ==
    (IF 2 * t <= MaxTrees THEN <<Subtree("src", 2 * t)>> ELSE <<>>)
    \o [i \in 1..Len(fill) |-> [fill[i] EXCEPT !.sha = 100 * t + fill[i].name.stem]]
    \o <<[Subtree("sub", 0) EXCEPT !.type = "commit"]>>
    \o (IF 2 * t + 1 <= MaxTrees THEN <<Subtree("r", 2 * t + 1)>> ELSE <<>>)

ShapeTrees(sh) == [t \in 1..MaxTrees |-> TreeResp("success", 70 + t, EntriesOf(t, sh[t]))]

TreeUrls ==
    {RepoUrl(segs, ShapeTrees(sh)) :
        segs \in {<<"o", "r">>, <<"o", "r", "tree", "main">>}, sh \in [1..MaxTrees -> Fills]}

\* A repository URL is imported into an empty group: the first import of a
\* session, or the one after a Back.
TreeImport(url) == files = EmptyFiles /\ ApplyRemote(url)

TreeBack == files # EmptyFiles /\ ApplyReset

NextTree ==
    \/ \E u \in TreeUrls : TreeImport(u)
    \/ TreeBack

SpecTree == Init /\ [][NextTree]_vars

\* ------------------------------------------- imports of generated archives
\* What one entry of an archive can be: a code file, a code file exactly at
\* the size cap, a code file over it, an oversize picture, a directory whose
\* name ends like a code file, a code file whose bytes are not text.
EntryKinds == {"code", "atcap", "big", "picture", "dir", "binary"}

\* The entry of kind k at position i of an archive.
KindEntry(k, i) ==
    CASE k = "code" -> Entry(<<>>, i, ".rs", 50, i)
      [] k = "atcap" -> Entry(<<"src">>, i, ".py", MAX_FILE_SIZE, i)
      [] k = "big" -> Entry(<<>>, i, ".rs", MAX_FILE_SIZE + 1, i)
      [] k = "picture" -> Entry(<<>>, i, ".png", 5 * MAX_FILE_SIZE, i)
      [] k = "dir" -> [Entry(<<>>, i, ".rs", 0, i) EXCEPT !.is_file = FALSE]
      [] k = "binary" -> [Entry(<<>>, i, ".py", 50, i) EXCEPT !.text_ok = FALSE]

\* Length of the leading run: none, or one short of the cap on the list.
LeadRuns == {0, MAX_NUM_FILES - 1}

\* lead plain code files followed by the entries of the given kinds.
GenArchive(ext, lead, kinds) ==
    Archive(ext, TRUE,
            [i \in 1..(lead + Len(kinds)) |->
                IF i <= lead THEN KindEntry("code", i) ELSE KindEntry(kinds[i - lead], i)])

GenArchives ==
    {GenArchive(ext, lead, kinds) :
        ext \in {".zip", ".tar", ".tgz", ".7z"}, lead \in LeadRuns,
        kinds \in [1..MaxTail -> EntryKinds]}

\* Archives the user picks after an upload was refused.
SecondArchives ==
    {GenArchive(".zip", 0, <<"code", "picture">>), GenArchive(".7z", 0, <<"picture", "dir">>),
     GenArchive(".tar", 0, <<"binary", "big">>)}

\* One archive is uploaded into an empty group: the first import of a
\* session, or the one after a Back.
ArchiveImport(a) == files = EmptyFiles /\ called # "import_upload" /\ ApplyUpload(<<a>>)

\* The upload was refused (the group is as it was) and another archive is
\* uploaded.
ArchiveAgain(a) == files = EmptyFiles /\ called = "import_upload" /\ ApplyUpload(<<a>>)

ArchiveBack == called = "import_upload" /\ ApplyReset

NextArchive ==
    \/ \E a \in GenArchives : ArchiveImport(a)
    \/ \E a \in SecondArchives : ArchiveAgain(a)
    \/ ArchiveBack

SpecArchive == Init /\ [][NextArchive]_vars

\* ------------------------------------------- imports that reach the cap
\* What one file of an uploaded selection can be: a code file, a code file
\* over the size cap, a picture, a code file whose bytes cannot be read.
ListKinds == {"code", "big", "picture", "unreadable"}

\* The file of kind k at position i of a selection.
KindFile(k, i) ==
    CASE k = "code" -> StdFile(i, ".rs", 50, i)
      [] k = "big" -> StdFile(i, ".rs", MAX_FILE_SIZE + 1, i)
      [] k = "picture" -> StdFile(i, ".png", 9, i)
      [] k = "unreadable" -> [StdFile(i, ".py", 50, i) EXCEPT !.read_ok = FALSE]

\* lead plain code files followed by the files of the given kinds.
GenLists ==
    {[i \in 1..(lead + MaxTail) |->
        IF i <= lead THEN KindFile("code", i) ELSE KindFile(kinds[i - lead], i)] :
        lead \in LeadRuns, kinds \in [1..MaxTail -> ListKinds]}

CapArchives ==
    {GenArchive(ext, lead, kinds) :
        ext \in {".zip", ".tar", ".gz", ".7z"}, lead \in LeadRuns,
        kinds \in [1..MaxTail -> {"code", "big", "binary"}]}

\* What one blob of the root tree can be.
BlobKinds == {"code", "big", "picture"}

KindBlob(k, i) ==
    CASE k = "code" -> Blob(i, ".rs", 50)
      [] k = "big" -> Blob(i, ".rs", MAX_FILE_SIZE + 1)
      [] k = "picture" -> Blob(i, ".png", 10)

\* Length of the root tree's leading run: with the three code files of the
\* subtrees, three short of the cap reaches it on the last blob.
RepoLeads == {0, MAX_NUM_FILES - 3, MAX_NUM_FILES - 1}

\* The root tree lists its subtree a/ first, then lead code files and the
\* blobs of the given kinds; a/ holds a code file, the subtree a/b/ and
\* another code file; a/b/ holds one code file of unknown size.  st2 and st3
\* are the statuses with which GitHub answers the requests for a/ and a/b/.
GenRepo(lead, kinds, st2, st3) ==
    RepoUrl(<<"o", "r">>,
        (1 :> TreeResp("success", 71,
                       <<Subtree("a", 2)>>
                       \o [i \in 1..(lead + Len(kinds)) |->
                             IF i <= lead THEN KindBlob("code", i)
                             ELSE KindBlob(kinds[i - lead], i)]))
        @@ (2 :> TreeResp(st2, 72,
                          IF st2 = "success"
                          THEN <<Blob(201, ".rs", 50), Subtree("b", 3), Blob(202, ".py", 50)>>
                          ELSE <<>>))
        @@ (3 :> TreeResp(st3, 73,
                          IF st3 = "success" THEN <<Blob(301, ".rs", -1)>> ELSE <<>>)))

GenRepos ==
    {GenRepo(lead, kinds, st2, st3) :
        lead \in RepoLeads, kinds \in [1..MaxTail -> BlobKinds],
        st2 \in {"success", "forbidden"}, st3 \in {"success", "neterr"}}

\* Each import goes into an empty group: it is the first import of a session
\* or the one after a Back.
CapFresh == files = EmptyFiles /\ called \in {"none", "reset"}

CapArchive(a) == CapFresh /\ ApplyUpload(<<a>>)

CapList(l) == CapFresh /\ ApplyUpload(l)

CapRepo(u) == CapFresh /\ ApplyRemote(u)

CapBack == called \in {"import_upload", "import_remote"} /\ ApplyReset

NextCap ==
    \/ \E a \in CapArchives : CapArchive(a)
    \/ \E l \in GenLists : CapList(l)
    \/ \E u \in GenRepos : CapRepo(u)
    \/ CapBack

SpecCap == Init /\ [][NextCap]_vars

\* --------------------------------------------- imports of single-file URLs
\* A non-GitHub URL with extension ext whose probe is answered by head and
\* whose Location resolves to a URL with extension text answered by thead.
ProbeUrl(ext, head, text, thead) ==
    [FileUrl(3, ext, head) EXCEPT !.target.name.ext = text, !.target.head = thead]

\* A code extension, another extension, no extension.
ProbeExts == {".rs", ".png", ""}

\* Content-Length absent, small, exactly at the limit, above it.
ProbeLengths == {-1, 500, MAX_FILE_SIZE, MAX_FILE_SIZE + 1}

ProbeTypes == {"text", "html", "none"}

\* Responses that end the resolution: successes, a 404, a second redirect, a
\* transport error.
FinalResps ==
    {HeadResp("success", "none", c, l) : c \in ProbeTypes, l \in ProbeLengths}
    \cup {HeadResp("notfound", "none", "text", 10), HeadResp("redirect", "abs", "text", 10),
          HeadResp("neterr", "none", "none", -1)}

\* Location headers: absolute, relative, absent, not resolvable.
ProbeLocations == {"abs", "rel", "none", "bad"}

\* Responses to the second probe.
SecondResps == {h \in FinalResps : h.length # MAX_FILE_SIZE}

\* URLs answering directly; URLs redirecting to a location that resolves;
\* URLs redirecting without one.
ProbeUrls ==
    {ProbeUrl(e, h, ".rs", HeadResp("success", "none", "text", 10)) :
        e \in ProbeExts, h \in FinalResps \ {HeadResp("redirect", "abs", "text", 10)}}
    \cup {ProbeUrl(e, HeadResp("redirect", "abs", "text", 10), t, h) :
            e \in {".rs", ".png"}, t \in ProbeExts, h \in SecondResps}
    \cup {ProbeUrl(".png", HeadResp("redirect", "rel", "text", 10), ".rs", h) : h \in SecondResps}
    \cup {ProbeUrl(".rs", HeadResp("redirect", l, "text", 10), ".rs",
                   HeadResp("success", "none", "text", 10)) : l \in ProbeLocations \ {"abs", "rel"}}

NextProbe ==
    \/ \E u \in ProbeUrls : ApplyRemote(u)
    \/ ApplyReset

SpecProbe == Init /\ [][NextProbe]_vars

\* ------------------------------------------------ scheduler-only runs
\* n files of one origin are imported and registered, a client is in the
\* slot, the provider is a stub answering every call with one fixed score,
\* and the user does nothing.
WaveFile(origin, i) ==
    IF origin = "Local" THEN new_local(".rs", [size |-> 50, id |-> i])
    ELSE new_remote([name |-> [dir |-> <<>>, stem |-> i, ext |-> ".rs"], sha |-> 0, id |-> i], 0)

StubScores == {0, 42, 100}

InitWave(scores) ==
    \E n \in 1..MaxWave : \E origin \in {"Local", "Remote"} : \E s \in scores :
        /\ files = [p \in {[dir |-> <<>>, stem |-> i, ext |-> ".rs"] : i \in 1..n}
                        |-> WaveFile(origin, p.stem)]
        /\ skipped = FALSE
        /\ called = "none"
        /\ presented = <<>>
        /\ result = "Ok"
        /\ arg = <<>>
        /\ tried = <<>>
        /\ stage = "CodeGot"
        /\ api_provider = "OpenAI"
        /\ api_key_vstate = "Success"
        /\ api_client = 1
        /\ key_validating = 0
        /\ key_delaying = 0
        /\ num_clients = 1
        /\ import_method = IF origin = "Local" THEN "Upload" ELSE "UrlTo"
        /\ code_in_vstate = "Success"
        /\ import_task = NoImport
        /\ task_queue = [i \in 1..n |-> i]
        /\ file_results = [i \in 1..n |-> i]
        /\ rows = [i \in 1..n |-> [path |-> [dir |-> <<>>, stem |-> i, ext |-> ".rs"],
                                   file |-> WaveFile(origin, i)]]
        /\ status = [i \in 1..n |-> Pending]
        /\ num_finished = 0
        /\ detection_cp = FALSE
        /\ nothing_to_retry = FALSE
        /\ sched = Asleep
        /\ panicked = FALSE
        /\ polls = 0
        /\ stub = s

InitSched == InitWave(StubScores)

NextSched ==
    \/ SchedPoll /\ polls < Len(rows) + ExtraPolls /\ polls' = polls + 1
    \/ SchedFetchDone(TRUE)
    \/ SchedCallDone([kind |-> "score", n |-> stub])

SpecSched == InitSched /\ [][NextSched]_vars

\* ------------------------------- scheduler-only runs with failing calls
\* The same wave, but a content fetch may fail and the provider may answer any
\* call with its score, with a transport error or with an unparsable reply.
WaveOutcomes ==
    {[kind |-> "score", n |-> stub], [kind |-> "Status", n |-> 0], [kind |-> "Parse", n |-> 0]}

WavePoll == SchedPoll /\ polls < Len(rows) + ExtraPolls /\ polls' = polls + 1

WaveFetchDone == \E ok \in BOOLEAN : SchedFetchDone(ok)

WaveCallDone == \E out \in WaveOutcomes : SchedCallDone(out)

NextSchedFail ==
    \/ WavePoll
    \/ WaveFetchDone
    \/ WaveCallDone

\* The loop is one spawned task on the page's executor: its timer fires, and
\* a request that was sent resolves, with a response or with an error.
SpecSchedFair ==
    /\ InitSched
    /\ [][NextSchedFail]_vars
    /\ WF_vars(WavePoll)
    /\ WF_vars(WaveFetchDone)
    /\ WF_vars(WaveCallDone)

\* ------------------------------- scheduler-only runs with any score
\* Scores the provider's reply may carry: within the percentage range, just
\* over it, over the range of a byte, and a number that is no unsigned integer.
ScoreReplies == {0, 57, 100, 101, 137, 255, 256, 300, 1000, -7}

InitScores == InitWave(ScoreReplies)

SpecScores == InitScores /\ [][NextSchedFail]_vars

\* ------------------------------------- scheduler runs with retry and export
\* Option<T>.
None == <<>>

Some(x) == <<x>>

\* The key of the extension when LANGUAGE_MAP holds it, "-" otherwise.
lang_name_of(ext) == IF ext \in LANGUAGE_MAP THEN ext ELSE "-"

\* Mutation: a file that is not finished is left out of the export.
DownloadableResults_finishedOnly(results) ==
    LET done == SelectSeq(results, LAMBDA r : status[r].tag = "Success") IN
    [i \in 1..Len(done) |->
        [file |-> rows[done[i]].path,
         lang |-> lang_name_of(get_ext(rows[done[i]].file)),
         size |-> get_size(rows[done[i]].file),
         finished |-> TRUE,
         likelihood |-> Some(status[done[i]].score),
         reasoning |-> Some(status[done[i]].msg),
         error_msg |-> None]]

\* DownloadableResults::from: one entry per FileResults entry, in order.
DownloadableResults(results) ==
    [i \in 1..Len(results) |->
        LET st == status[results[i]] IN
        [file |-> rows[results[i]].path,
         lang |-> lang_name_of(get_ext(rows[results[i]].file)),
         size |-> get_size(rows[results[i]].file),
         finished |-> st.tag = "Success",
         likelihood |-> IF st.tag = "Success" THEN Some(st.score) ELSE None,
         reasoning |-> IF st.tag = "Success" THEN Some(st.msg) ELSE None,
         error_msg |-> IF st.tag = "Success" THEN None
                       ELSE IF st.tag = "Failure" THEN Some(st.msg)
                       ELSE Some("still in progress")]]

\* The Download button is rendered with the Retry button.  The serialized
\* results are kept in the call log.
handle_download_button ==
    /\ UiCanRun
    /\ StageRank(stage) >= StageRank("CodeGot")
    /\ detection_cp
    /\ called' = "handle_download_button"
    /\ presented' = DownloadableResults(file_results)
    /\ UNCHANGED <<files, skipped, result, arg, tried, wizardVars, detectVars, sched,
                   panicked, polls, stub>>

\* The state in which a second import has just been registered while the
\* call for the only file of the first import, made before a step-2 Back, is
\* still outstanding: the first row is Flying and tracked, the second row is
\* the one file now in the group.
InitStale ==
    \E origin \in {"Local", "Remote"} : \E s \in StubScores :
        /\ files = ([dir |-> <<>>, stem |-> 2, ext |-> ".rs"] :> WaveFile(origin, 2))
        /\ skipped = FALSE
        /\ called = "none"
        /\ presented = <<>>
        /\ result = "Ok"
        /\ arg = <<>>
        /\ tried = <<>>
        /\ stage = "CodeGot"
        /\ api_provider = "OpenAI"
        /\ api_key_vstate = "Success"
        /\ api_client = 0
        /\ key_validating = 0
        /\ key_delaying = 0
        /\ num_clients = 1
        /\ import_method = IF origin = "Local" THEN "Upload" ELSE "UrlTo"
        /\ code_in_vstate = "Success"
        /\ import_task = NoImport
        /\ task_queue = <<2>>
        /\ file_results = <<1, 2>>
        /\ rows = [i \in 1..2 |-> [path |-> [dir |-> <<>>, stem |-> i, ext |-> ".rs"],
                                   file |-> WaveFile(origin, i)]]
        /\ status = <<Flying, Pending>>
        /\ num_finished = 0
        /\ detection_cp = FALSE
        /\ nothing_to_retry = FALSE
        /\ sched = [pc |-> "call", row |-> 1, client |-> 1]
        /\ panicked = FALSE
        /\ polls = 1
        /\ stub = s

InitExport == InitSched \/ InitStale

NextExport ==
    \/ WavePoll
    \/ WaveFetchDone
    \/ WaveCallDone
    \/ handle_retry_button
    \/ handle_download_button

SpecExport == InitExport /\ [][NextExport]_vars

\* ------------------------------------------ scheduler runs with retries
\* The state in which a second import has just been registered after a
\* step-2 Back, the only file of the first import having ended in Failure: its
\* row is still tracked, the second row is the one file now in the group.
InitLedger ==
    \E origin \in {"Local", "Remote"} : \E s \in StubScores :
        /\ files = ([dir |-> <<>>, stem |-> 2, ext |-> ".rs"] :> WaveFile(origin, 2))
        /\ skipped = FALSE
        /\ called = "none"
        /\ presented = <<>>
        /\ result = "Ok"
        /\ arg = <<>>
        /\ tried = <<>>
        /\ stage = "CodeGot"
        /\ api_provider = "OpenAI"
        /\ api_key_vstate = "Success"
        /\ api_client = 1
        /\ key_validating = 0
        /\ key_delaying = 0
        /\ num_clients = 1
        /\ import_method = IF origin = "Local" THEN "Upload" ELSE "UrlTo"
        /\ code_in_vstate = "Success"
        /\ import_task = NoImport
        /\ task_queue = <<2>>
        /\ file_results = <<1, 2>>
        /\ rows = [i \in 1..2 |-> [path |-> [dir |-> <<>>, stem |-> i, ext |-> ".rs"],
                                   file |-> WaveFile(origin, i)]]
        /\ status = <<Failure("status"), Pending>>
        /\ num_finished = 0
        /\ detection_cp = FALSE
        /\ nothing_to_retry = FALSE
        /\ sched = Asleep
        /\ panicked = FALSE
        /\ polls = 0
        /\ stub = s

InitRetry == InitSched \/ InitLedger

\* One iteration of the loop starts; iterations are not counted.
RetryPoll == SchedPoll /\ UNCHANGED polls

NextRetry ==
    \/ RetryPoll
    \/ WaveFetchDone
    \/ WaveCallDone
    \/ handle_retry_button

\* The loop's timer fires and a request that was sent resolves; the user is
\* free to press Retry or not.
SpecRetryFair ==
    /\ InitRetry
    /\ [][NextRetry]_vars
    /\ WF_vars(RetryPoll)
    /\ WF_vars(WaveFetchDone)
    /\ WF_vars(WaveCallDone)

\* ------------------------------------------------------------------ claims
FlyingCells == {r \in DOMAIN status : status[r].tag = "Flying"}

CallOutstanding == sched.pc \in {"fetch", "call"}

\* C1: under every interleaving of the scheduler with the UI actions at most
\* one classification call is outstanding and at most one status cell holds
\* Flying: the only Flying cell is the one of the task the scheduler is
\* working on, and while the scheduler sleeps no cell is Flying.
C1_SingleFlight ==
    /\ Cardinality(FlyingCells) <= 1
    /\ FlyingCells = IF sched.pc = "sleep" THEN {} ELSE {sched.row}
    /\ CallOutstanding => sched.row \in DOMAIN status /\ sched.client # 0

\* A call is outstanding for one file while another waits in the queue after
\* the user has stepped back and imported again.
C1_Witness ==
    /\ sched.pc = "call"
    /\ task_queue # <<>>
    /\ sched.row \notin {file_results[i] : i \in DOMAIN file_results}
    /\ status[Head(task_queue)] = Pending
    /\ Cardinality(FlyingCells) = 1

\* One step of one cell, as DetectionStatus allows it.
StatusStep(old, new) ==
    \/ old.tag = "Pending" /\ new.tag = "Flying"
    \/ old.tag = "Flying" /\ new.tag \in {"Success", "Failure"}
    \/ old.tag = "Failure" /\ new.tag = "Pending"

\* C2: every change of a status cell is Pending to Flying, Flying to Success,
\* Flying to Failure, or Failure to Pending; a Success cell never changes; a
\* new cell starts as Pending and no cell is lost.
C2_StatusSteps ==
    [][/\ DOMAIN status \subseteq DOMAIN status'
       /\ \A r \in DOMAIN status' :
            IF r \in DOMAIN status
            THEN status'[r] # status[r] => StatusStep(status[r], status'[r])
            ELSE status'[r] = Pending]_vars

\* The second file of an import has succeeded while the first, dispatched
\* before it, is Pending in the queue again: it failed and was retried.
C2_Witness ==
    \E i \in DOMAIN file_results : \E j \in DOMAIN file_results :
        /\ i < j
        /\ rows[file_results[i]].path # rows[file_results[j]].path
        /\ status[file_results[j]].tag = "Success"
        /\ status[file_results[i]].tag = "Pending"
        /\ task_queue = <<file_results[i]>>
        /\ ~detection_cp

\* Scheduler iterations that have run to their end.
IterationsDone == IF sched.pc = "sleep" THEN polls ELSE polls - 1

\* C3: with N files registered at CodeGot, a client in the slot, a call that
\* always succeeds with score s and no user action, the k-th iteration
\* finishes the k-th file: after N iterations every status is Success with
\* score s, the finished-count is N and the completion flag is set, and the
\* flag is not set before the N-th iteration has ended.
C3_WaveCompletes ==
    LET n == Len(rows)
        k == IterationsDone
    IN  /\ num_finished = Min(k, n)
        /\ detection_cp <=> k >= n
        /\ \A r \in 1..n :
             status[r] = IF r <= k THEN Success(stub)
                         ELSE IF r = polls THEN Flying ELSE Pending
        /\ k >= n => task_queue = <<>> /\ api_client = 1

\* The N-th iteration of a wave of MaxWave remote files has just ended.
C3_Witness ==
    /\ Len(rows) = MaxWave
    /\ rows[1].file.origin = "Remote"
    /\ polls = MaxWave
    /\ sched.pc = "sleep"
    /\ detection_cp
    /\ num_finished = MaxWave
    /\ \A r \in 1..MaxWave : status[r] = Success(stub)

\* C4: the scheduler takes the client out of the shared slot before the
\* content fetch and the call, so the slot never holds the client in use while
\* either is outstanding; when the task completes the client goes back into
\* the (empty) slot if the stage is ApiDone or CodeGot at that moment, and is
\* dropped if the stage is Initial.
C4_ClientDiscipline ==
    [][/\ CallOutstanding' => api_client' # sched'.client
       /\ (sched.pc = "sleep" /\ CallOutstanding')
            => sched'.client = api_client /\ api_client' = 0
       /\ (CallOutstanding /\ sched'.pc = "sleep")
            => api_client' = IF stage \in {"ApiDone", "CodeGot"} /\ api_client = 0
                             THEN sched.client ELSE api_client]_vars

\* A call has completed after a step-1 Back: the only client ever created is
\* in nobody's hands any more.
C4_Witness ==
    /\ stage = "Initial"
    /\ sched.pc = "sleep"
    /\ api_client = 0
    /\ num_clients = 1
    /\ key_validating = 0
    /\ \E r \in DOMAIN status : status[r].tag = "Success"

\* The rows of the files of the current import: the rows registered when the
\* stage last became CodeGot.
CurrentRows ==
    IF stage = "CodeGot" THEN {r \in DOMAIN rows : r > Len(rows) - num_files(files)} ELSE {}

\* C5: when the user has stepped back while a call was in flight (the stage is
\* no longer CodeGot, or it is CodeGot again for a new import that the task in
\* flight does not belong to), the completion of that call is discarded: the
\* finished-count and the completion flag stay as they are and no file of the
\* new import changes status.
C5_StaleCompletionDiscarded ==
    [][(/\ CallOutstanding
        /\ sched'.pc = "sleep"
        /\ sched.row \notin CurrentRows)
          => /\ num_finished' = num_finished
             /\ detection_cp' = detection_cp
             /\ \A r \in CurrentRows : status'[r] = status[r]]_vars

\* The tracked files in Failure, in FileResults order.
TrackedFailures == SelectSeq(file_results, LAMBDA r : status[r].tag = "Failure")

\* A step that can only be the retry handler: no row is registered and no Back
\* runs, and the queue grows, a Failure becomes Pending, the completion flag
\* is cleared or the "nothing to retry" report changes.
RetryStep ==
    /\ rows' = rows
    /\ stage' = stage
    /\ \/ Len(task_queue') > Len(task_queue)
       \/ \E r \in DOMAIN status : status[r].tag = "Failure" /\ status'[r].tag = "Pending"
       \/ detection_cp /\ ~detection_cp'
       \/ nothing_to_retry' # nothing_to_retry

\* C6: a retry with k >= 1 tracked files in Failure appends exactly those k
\* files to the queue, in FileResults order and once each, sets them Pending,
\* leaves every other status (every Success) untouched and unqueued, lowers
\* the finished-count by k but not below 0, and clears the completion flag.
C6_RetryRequeuesFailures ==
    [][(RetryStep /\ TrackedFailures # <<>>)
        => LET failed == TrackedFailures
               k == Len(failed)
           IN  /\ task_queue' = task_queue \o failed
               /\ \A i \in 1..k : \A j \in 1..k : failed[i] = failed[j] => i = j
               /\ \A r \in DOMAIN status :
                    status'[r] = IF \E i \in 1..k : failed[i] = r THEN Pending ELSE status[r]
               /\ num_finished' = IF num_finished >= k THEN num_finished - k ELSE 0
               /\ ~detection_cp'
               /\ ~nothing_to_retry']_vars

\* A failure of an earlier import has been put back into the queue by a retry
\* while the file of the current import keeps its Success.
C6_Witness ==
    /\ stage = "CodeGot"
    /\ ~detection_cp
    /\ Len(task_queue) = 1
    /\ task_queue[1] \notin CurrentRows
    /\ status[task_queue[1]] = Pending
    /\ num_finished = 0
    /\ \E r \in CurrentRows : status[r].tag = "Success"

\* C7: a retry with no tracked file in Failure reports "nothing to retry" and
\* leaves the queue, every status cell, the finished-count and the completion
\* flag as they are.
C7_RetryNothing ==
    [][(RetryStep /\ TrackedFailures = <<>>)
        => /\ nothing_to_retry'
           /\ UNCHANGED <<task_queue, status, num_finished, detection_cp>>]_vars

\* A retry has reported "nothing to retry" on a finished wave of two files.
C7_Witness ==
    /\ nothing_to_retry
    /\ detection_cp
    /\ stage = "CodeGot"
    /\ task_queue = <<>>
    /\ num_finished = 2
    /\ Len(file_results) = 2
    /\ \A i \in DOMAIN file_results : status[file_results[i]].tag = "Success"

\* C8: after any sequence of import_textbox, import_upload and import_remote
\* calls on one CodeGroup, with or without reset in between and also after a
\* call that failed part-way, the mapping holds at most MAX_NUM_FILES files.
C8_NumFilesWithinCap == num_files(files) <= MAX_NUM_FILES

\* C9: every file in the mapping, whichever import admitted it, has a size of
\* at most MAX_FILE_SIZE; an oversize candidate is absent from the mapping.
C9_AdmittedWithinSizeCap ==
    \A p \in DOMAIN files : get_size(files[p]) <= MAX_FILE_SIZE

ImportCalls == {"import_textbox", "import_upload", "import_remote"}

\* C10: when an import call presents a candidate under a path that is already
\* taken, by a file of an earlier call or by an earlier candidate of the same
\* call, that insertion fails with Exists and the call ends there; the files
\* admitted before it, and every file of earlier calls, keep their origin and
\* content, so that each path holds exactly the first file presented under it.
C10_FirstPathWins ==
    [][called' \in ImportCalls
        => LET L == presented'
               a == num_files(files') - num_files(files)
               names == {L[i].name : i \in 1..a}
           IN  /\ \A p \in DOMAIN files : p \in DOMAIN files' /\ files'[p] = files[p]
               /\ a \in 0..Len(L)
               /\ Cardinality(names) = a
               /\ names \cap DOMAIN files = {}
               /\ DOMAIN files' = DOMAIN files \cup names
               /\ \A i \in 1..a : files'[L[i].name] = L[i].file
               /\ IF a < Len(L)
                  THEN result' = "Exists" /\ L[a + 1].name \in DOMAIN files \cup names
                  ELSE result' # "Exists"]_vars

\* A call has ended with Exists on a candidate whose content differs from the
\* file kept under its path, after admitting the candidates before it.
C10_Witness ==
    /\ result = "Exists"
    /\ Len(presented) > 1
    /\ presented[1].name \in DOMAIN files
    /\ files[presented[1].name] = presented[1].file
    /\ \E i \in DOMAIN presented :
         /\ i > 1
         /\ presented[i].name \in DOMAIN files
         /\ files[presented[i].name] # presented[i].file

\* C11: when an import call fails with Exists at its k-th candidate, the k-1
\* candidates before it are in the mapping with their own content (nothing is
\* rolled back), neither the k-th candidate nor a later one is added, and every
\* file present before the call is unchanged.
C11_NoRollbackOnExists ==
    [][(called' \in ImportCalls /\ result' = "Exists")
        => \E k \in 1..Len(presented') :
             LET L == presented'
                 admitted == {L[i].name : i \in 1..(k - 1)}
             IN  /\ Cardinality(admitted) = k - 1
                 /\ admitted \cap DOMAIN files = {}
                 /\ L[k].name \in DOMAIN files \cup admitted
                 /\ DOMAIN files' = DOMAIN files \cup admitted
                 /\ \A i \in 1..(k - 1) : files'[L[i].name] = L[i].file
                 /\ \A p \in DOMAIN files : files'[p] = files[p]]_vars

\* A call has failed with Exists in the middle of its list: the candidate
\* before the collision is in the mapping, the colliding path still holds the
\* file of an earlier call, and the candidate after it is absent.
C11_Witness ==
    /\ called = "import_upload"
    /\ result = "Exists"
    /\ \E k \in 2..(Len(presented) - 1) :
         /\ \A i \in 1..(k - 1) :
              presented[i].name \in DOMAIN files
                  /\ files[presented[i].name] = presented[i].file
         /\ presented[k].name \in DOMAIN files
         /\ files[presented[k].name] # presented[k].file
         /\ \A j \in (k + 1)..Len(presented) : presented[j].name \notin DOMAIN files

\* C12: no import call, successful or failed, removes or replaces a file that
\* was in the mapping before it: every path present before is present after
\* with the same file.  A step that loses or changes a file is a reset, which
\* empties the mapping.
C12_ImportsOnlyAdd ==
    [][/\ called' \in ImportCalls
            => \A p \in DOMAIN files : p \in DOMAIN files' /\ files'[p] = files[p]
       /\ (\E p \in DOMAIN files : p \notin DOMAIN files' \/ files'[p] # files[p])
            => called' = "reset" /\ files' = EmptyFiles]_vars

\* An upload has failed on a mapping that still holds the pasted text and a
\* remote file of earlier calls.
C12_Witness ==
    /\ called = "import_upload"
    /\ result = "Upload"
    /\ TextboxPath \in DOMAIN files
    /\ \E p \in DOMAIN files : files[p].origin = "Remote"

\* C13: reset() yields the empty state (no file, skipped = FALSE) from every
\* reachable CodeGroup, and a second reset() right after the first yields that
\* same state: the state after a reset is a fixed point of reset.
C13_ResetEmptyIdempotent ==
    called = "reset"
        => /\ files = EmptyFiles
           /\ num_files(files) = 0
           /\ skipped = FALSE
           /\ reset = [files |-> files, skipped |-> skipped]

\* The last call on the group was a reset: no file is left, the flag is clear.
C13_Witness ==
    /\ called = "reset"
    /\ presented = <<>>
    /\ files = EmptyFiles
    /\ ~skipped

\* C14: every file in the mapping, whichever import operation admitted it
\* (import_textbox included), has an extension of the recognized
\* code-extension allow-list.
C14_RecognizedExtensions ==
    \A p \in DOMAIN files : get_ext(files[p]) \in LANGUAGE_MAP

\* Every registered file has reached Success or Failure.
AllSettled ==
    /\ task_queue = <<>>
    /\ \A r \in DOMAIN status : status[r].tag \in {"Success", "Failure"}

\* C15: a content-fetch failure or a classification-call failure of one file
\* sets that file's status to Failure, counts it in the finished-count and
\* leaves the scheduler asleep, ready for its next iteration; the queue is not
\* touched, so the remaining files are still dispatched; and whichever files
\* fail, every queued file eventually reaches Success or Failure and the
\* completion flag is eventually set, and they stay so.
C15_FailuresDoNotStop ==
    /\ [][(CallOutstanding /\ sched'.pc # sched.pc /\ status'[sched.row].tag = "Failure")
            => /\ sched' = Asleep
               /\ num_finished' = num_finished + 1
               /\ task_queue' = task_queue
               /\ api_client' = sched.client]_vars
    /\ \A r \in 1..MaxWave :
         (r \in DOMAIN status /\ status[r].tag = "Failure")
            ~> (AllSettled /\ detection_cp)
    /\ <>[](AllSettled /\ detection_cp /\ num_finished = Len(rows))

\* A wave of MaxWave remote files has completed although the fetch of the
\* first file and the call of the second failed; the last one succeeded.
C15_Witness ==
    /\ Len(rows) = MaxWave
    /\ rows[1].file.origin = "Remote"
    /\ status[1] = Failure("fetch")
    /\ status[2] = Failure("status")
    /\ status[MaxWave].tag = "Success"
    /\ detection_cp
    /\ num_finished = MaxWave
    /\ sched = Asleep

\* An entry that passes the extension and size filters.
Admissible(e) == e.is_file /\ e.name.ext \in LANGUAGE_MAP /\ e.size <= MAX_FILE_SIZE

\* The upload is one file with an archive extension whose container decodes.
DecodableArchive(ups) ==
    /\ Len(ups) = 1
    /\ ups[1].name.ext \in ArchiveExts
    /\ ups[1].read_ok
    /\ ups[1].container_ok

\* C16: when import_upload is given exactly one file with an archive
\* extension whose container decodes with zero admissible entries, the
\* archive layer reports no error and import_upload goes on to interpret the
\* upload as a list of standalone code files.
C16_EmptyArchiveFallsBack ==
    [][(/\ called' = "import_upload"
        /\ DecodableArchive(arg')
        /\ \A i \in DOMAIN arg'[1].entries : ~Admissible(arg'[1].entries[i]))
          => /\ Len(tried') = 2
             /\ tried'[1].interp = "archive"
             /\ tried'[1].res # "Err"
             /\ tried'[2].interp = "list"]_vars

\* C17: import_remote goes on to the single-file interpretation (the metadata
\* probe) both when the host of the URL is not the GitHub web host and when it
\* is but the path has fewer than two non-empty segments (no owner/repo); and
\* it fails with Parse only when no interpretation yielded a file.
C17_RemoteFallsBack ==
    [][(/\ called' = "import_remote"
        /\ arg'.parse = "ok"
        /\ arg'.scheme \in {"http", "https"})
          => /\ (arg'.host # GITHUB_HOST_STR \/ Len(NonEmptySegs(arg'.segs)) < 2)
                  => /\ Len(tried') = 2
                     /\ tried'[1] = Attempt("github", ProdNone(skipped))
                     /\ tried'[2].interp = "single"
             /\ result' = "Parse" => \A i \in DOMAIN tried' : tried'[i].res # "Some"]_vars

\* C18: a GitHub URL whose path has more non-empty segments than
\* owner/repo/tree/<ref> is rejected with a GitHub error as pointing to a
\* specific sub-path: nothing is traversed and nothing is imported.
C18_SubPathRejected ==
    [][(/\ called' = "import_remote"
        /\ arg'.parse = "ok"
        /\ arg'.scheme \in {"http", "https"}
        /\ arg'.host = GITHUB_HOST_STR
        /\ Len(NonEmptySegs(arg'.segs)) > 4)
          => /\ result' = "GitHub"
             /\ presented' = <<>>
             /\ files' = files]_vars

\* The file a text submit creates from the text`s non-blank part.
TextboxFile(text) ==
    [origin |-> "Local", ext |-> "textbox", size |-> text.body,
     src |-> [sha |-> 0, id |-> text.id]]

trees_root(url) ==
    LET segs == NonEmptySegs(url.segs)
    IN  IF Len(segs) >= 4 THEN url.refs[segs[4]] ELSE url.meta.default_branch

\* The blobs of a repository with the directory each is found in: those of
\* the tree ref, found in dir, and those of every subtree below it.
RECURSIVE BlobsBelow(_, _, _)
BlobsBelow(trees, dir, ref) ==
    LET es == trees[ref].entries
        here == {[dir |-> dir, e |-> es[i]] : i \in {j \in DOMAIN es : es[j].type = "blob"}}
        subs == {i \in DOMAIN es : es[i].type = "tree"}
    IN  here \cup UNION {BlobsBelow(trees, dir \o <<es[i].dname>>, es[i].sha) : i \in subs}

\* What the traversal of url has to return: one candidate per blob with a
\* recognized extension and a size within the cap (an unknown size is 0),
\* under repo/<dir>/<name>, its raw URL built on the SHA of the root tree.
ExpectedBlobs(url) ==
    LET root == trees_root(url)
        repo == NonEmptySegs(url.segs)[2]
        ok == {b \in BlobsBelow(url.trees, <<>>, root) :
                 b.e.name.ext \in LANGUAGE_MAP /\ b.e.size <= MAX_FILE_SIZE}
    IN  {[name |-> [dir |-> <<repo>> \o b.dir, stem |-> b.e.name.stem, ext |-> b.e.name.ext],
          file |-> [origin |-> "Remote", ext |-> b.e.name.ext,
                    size |-> IF b.e.size >= 0 THEN b.e.size ELSE 0,
                    src |-> [sha |-> url.trees[root].sha, id |-> b.e.sha]]] : b \in ok}

\* C20: for a repository tree with fewer than MAX_NUM_FILES admissible blobs
\* the traversal returns exactly the blobs, at any depth, whose extension is
\* recognized and whose size does not exceed the cap, each exactly once under
\* repo/<dir>/<name>, and every raw URL embeds the SHA of the first tree
\* response; into an empty group all of them are imported.
C20_TraversalExact ==
    [][(called' = "import_remote" /\ Cardinality(ExpectedBlobs(arg')) < MAX_NUM_FILES)
        => LET want == ExpectedBlobs(arg')
               got == presented'
           IN  /\ {got[i] : i \in DOMAIN got} = want
               /\ Len(got) = Cardinality(want)
               /\ \A i \in DOMAIN got : got[i].file.src.sha = arg'.trees[trees_root(arg')].sha
               /\ result' = IF want = {} THEN "GitHub" ELSE "Ok"
               /\ DOMAIN files' = {c.name : c \in want}
               /\ \A c \in want : files'[c.name] = c.file]_vars

\* A repository has been imported whose root, whose subtree src/ and whose
\* subtree src/src/ each hold code files, and one blob was over the cap.
C20_Witness ==
    /\ called = "import_remote"
    /\ result = "Ok"
    /\ skipped
    /\ \E p \in DOMAIN files : Len(p.dir) = 1
    /\ \E p \in DOMAIN files : Len(p.dir) = 2
    /\ \E p \in DOMAIN files : Len(p.dir) = 3 /\ files[p].size = 0
    /\ \A p \in DOMAIN files : files[p].src.sha = 71
    /\ num_files(files) = Len(presented)

\* A regular file with a recognized extension and a declared size within the
\* cap.
Fits(e) == e.is_file /\ e.name.ext \in LANGUAGE_MAP /\ e.size <= MAX_FILE_SIZE

\* The position at which the list reaches the cap, or the last position.
CapPosition(E) ==
    LET fit == SelectSeq([j \in 1..Len(E) |-> j], LAMBDA j : Fits(E[j]))
    IN  IF Len(fit) >= MAX_NUM_FILES THEN fit[MAX_NUM_FILES] ELSE Len(E)

\* Fitting entries, up to the cap, whose bytes cannot be decoded as text.
Undecodable(E) == {j \in 1..CapPosition(E) : Fits(E[j]) /\ ~E[j].text_ok}

\* The last entry the decoder looks at.
LastRead(E) ==
    IF Undecodable(E) = {} THEN CapPosition(E)
    ELSE CHOOSE j \in Undecodable(E) : \A k \in 1..(j - 1) : ~(Fits(E[k]) /\ ~E[k].text_ok)

\* The entry a candidate of the list was made from.
EntryOf(cand) ==
    [name |-> cand.name, is_file |-> cand.file.origin = "Local" /\ cand.file.ext = cand.name.ext,
     size |-> cand.file.size, cid |-> cand.file.src.id, text_ok |-> TRUE]

\* C21: a decoder that reads its archive through admits, in archive order and
\* until the list holds MAX_NUM_FILES, exactly the entries that are regular
\* files with a recognized extension and a declared size within MAX_FILE_SIZE;
\* it sets the skipped flag exactly when an entry it has read is a regular file
\* with a recognized extension and a declared size over the cap, and never for
\* an entry with another extension, whatever its size.
C21_DecoderFilter ==
    [][called' = "import_upload"
        => /\ skipped' = (skipped \/ \E j \in 1..LastRead(arg'[1].entries) :
                                        /\ arg'[1].entries[j].is_file
                                        /\ arg'[1].entries[j].name.ext \in LANGUAGE_MAP
                                        /\ arg'[1].entries[j].size > MAX_FILE_SIZE)
           /\ tried'[1].interp = "archive"
           /\ IF Undecodable(arg'[1].entries) # {}
                 \/ SelectSeq(arg'[1].entries, Fits) = <<>>
              THEN /\ tried'[1].res = "Err"
                   /\ result' = "Upload"
                   /\ presented' = <<>>
                   /\ files' = files
              ELSE /\ tried'[1].res = "Some"
                   /\ [k \in 1..Len(presented') |-> EntryOf(presented'[k])]
                        = SubSeq(SelectSeq(arg'[1].entries, Fits), 1,
                                 Min(Len(SelectSeq(arg'[1].entries, Fits)), MAX_NUM_FILES))]_vars

\* An archive was read up to the cap: an oversize picture before the hundredth
\* fitting entry left the flag clear, and the oversize code file after that
\* entry was not looked at.
C21_Witness ==
    /\ called = "import_upload"
    /\ result = "Ok"
    /\ Len(presented) = MAX_NUM_FILES
    /\ Len(arg[1].entries) > MAX_NUM_FILES + 1
    /\ arg[1].entries[MAX_NUM_FILES].name.ext = ".png"
    /\ arg[1].entries[MAX_NUM_FILES].size > MAX_FILE_SIZE
    /\ arg[1].entries[MAX_NUM_FILES + 1].name.ext = ".rs"
    /\ arg[1].entries[MAX_NUM_FILES + 1].size <= MAX_FILE_SIZE
    /\ arg[1].entries[MAX_NUM_FILES + 2].name.ext = ".rs"
    /\ arg[1].entries[MAX_NUM_FILES + 2].size > MAX_FILE_SIZE
    /\ ~skipped

\* C22: every score stored in a Success status lies in 0..100: a reply that
\* carries an integer score over 100 is stored as 100, and one from 0 to 100 is
\* stored unchanged.
C22_ScoreClamped ==
    \A r \in DOMAIN status :
        status[r].tag = "Success"
            => /\ status[r].score \in 0..100
               /\ stub >= 0
               /\ status[r].score = IF stub > 100 THEN 100 ELSE stub

\* Every file of a wave was answered with the score 137 and holds 100.
C22_Witness ==
    /\ stub = 137
    /\ detection_cp
    /\ Len(rows) = MaxWave
    /\ \A r \in DOMAIN status : status[r].tag = "Success" /\ status[r].score = 100

\* C23: the export holds exactly one entry per FileResults entry, in order
\* and none left out; in each entry finished is true exactly when the status
\* is Success, likelihood and reasoning are present exactly when it is Success,
\* and error_msg is present exactly when it is not: the failure message for a
\* Failure, the "still in progress" placeholder for Pending and Flying.  (A
\* step that leaves the scheduler and the ledger alone and ends with the
\* export in the call log is a press of Download.)
C23_ExportComplete ==
    [][(called' = "handle_download_button" /\ UNCHANGED <<detectVars, sched, polls>>)
        => /\ Len(presented') = Len(file_results)
           /\ \A i \in 1..Len(file_results) :
                LET st == status[file_results[i]]
                    e == presented'[i]
                IN  /\ e.file = rows[file_results[i]].path
                    /\ e.finished <=> st.tag = "Success"
                    /\ e.likelihood # None <=> st.tag = "Success"
                    /\ e.reasoning # None <=> st.tag = "Success"
                    /\ e.error_msg # None <=> st.tag # "Success"
                    /\ st.tag = "Success"
                         => e.likelihood = Some(st.score) /\ e.reasoning = Some(st.msg)
                    /\ st.tag = "Failure" => e.error_msg = Some(st.msg)
                    /\ st.tag \in {"Pending", "Flying"}
                         => e.error_msg = Some("still in progress")]_vars

\* The last export reports one file as finished and another, which was still
\* waiting for its call, with the placeholder.
C23_Witness ==
    /\ called = "handle_download_button"
    /\ Len(presented) = 2
    /\ \E i \in 1..2 : presented[i].finished /\ presented[i].error_msg = None
    /\ \E i \in 1..2 : ~presented[i].finished
                         /\ presented[i].error_msg = Some("still in progress")

\* The files whose size is not known: remote files recorded with size 0.
UnknownSizes == {p \in DOMAIN files : files[p].origin = "Remote" /\ files[p].size = 0}

\* C24: total_size() is None exactly when some file of the group has an
\* unknown size (a Remote file with approx_size 0); otherwise it is the sum of
\* the sizes of all files, 0 for the empty group.
C24_TotalSize ==
    /\ total_size(files) = NoSize <=> UnknownSizes # {}
    /\ UnknownSizes = {}
         => /\ total_size(files) >= 0
            /\ \A p \in DOMAIN files :
                 total_size(files)
                   = files[p].size + total_size([q \in DOMAIN files \ {p} |-> files[q]])
    /\ files = EmptyFiles => total_size(files) = 0

\* The group holds an empty local file next to a remote file of known size
\* and at least one more file, none of unknown size: the total is a number.
C24_Witness ==
    /\ UnknownSizes = {}
    /\ \E p \in DOMAIN files : files[p].origin = "Local" /\ files[p].size = 0
    /\ \E p \in DOMAIN files : files[p].origin = "Remote" /\ files[p].size > 0
    /\ num_files(files) >= 3
    /\ total_size(files) > 0

\* C25: whenever the completion flag is set, every file currently in the Code
\* Group has a terminal status, Success or Failure: none is Pending, Flying or
\* still in the task queue, under every interleaving of Back, re-import and
\* retry with a call in flight.
C25_CompleteMeansSettled ==
    detection_cp
        => \A r \in CurrentRows :
             /\ status[r].tag \in {"Success", "Failure"}
             /\ \A i \in 1..Len(task_queue) : task_queue[i] # r

\* A Back button has run: the stage has dropped.
BackStep == StageRank(stage') < StageRank(stage)

\* C26: files are dispatched (set to Flying) in the order in which they were
\* pushed onto the task queue: the queue changes only by a push at its back
\* (registration, retry), by the dispatch of its head, or by a Back that
\* clears it, so an entry pushed while the scheduler is sleeping or awaiting a
\* call is kept and is dispatched after every entry pushed before it.
C26_FifoDispatch ==
    [][/\ \A r \in DOMAIN status :
            (status'[r].tag = "Flying" /\ status[r].tag # "Flying")
                => /\ task_queue # <<>>
                   /\ r = Head(task_queue)
                   /\ task_queue' = Tail(task_queue)
                   /\ sched.pc = "sleep"
       /\ task_queue' # task_queue
            => \/ /\ task_queue # <<>>
                  /\ task_queue' = Tail(task_queue)
                  /\ status'[Head(task_queue)].tag = "Flying"
               \/ /\ Len(task_queue') > Len(task_queue)
                  /\ SubSeq(task_queue', 1, Len(task_queue)) = task_queue
               \/ BackStep /\ task_queue' = <<>>]_vars

\* Two files were registered together; the first has been dealt with and the
\* second, pushed behind it, is the one in flight now.
C26_Witness ==
    /\ Len(rows) = 2
    /\ num_files(files) = 2
    /\ file_results = <<1, 2>>
    /\ status[1].tag \in {"Success", "Failure"}
    /\ status[2].tag = "Flying"
    /\ sched.row = 2
    /\ task_queue = <<>>
\* How many times cell r is in the queue q.
TimesQueued(q, r) == Cardinality({i \in 1..Len(q) : q[i] = r})

TrackedSettled(st) ==
    \A i \in 1..Len(file_results) : st[file_results[i]].tag \in {"Success", "Failure"}

\* C28: after a retry that re-queues k >= 1 failed files, with every call
\* terminating and the user doing nothing more, the completion flag is set
\* again in the end, and it is set at the step at which the last of the
\* re-queued files reaches a terminal status, not before.
C28_RetryCompletes ==
    /\ (~detection_cp) ~> detection_cp
    /\ [][(~detection_cp /\ detection_cp') => TrackedSettled(status')]_vars
    /\ [][(~TrackedSettled(status) /\ TrackedSettled(status')) => detection_cp']_vars

\* The cells that have left Pending at least once in a run without retry.
Dispatched(st) == {r \in DOMAIN st : st[r].tag # "Pending"}

\* C29: the scheduler sleeps one full polling interval before every pop of
\* the task queue: a file is dispatched only by a loop iteration that starts
\* with the delay, the step that ends a call or a fetch dispatches nothing and
\* leaves the scheduler asleep, and so no more files have been dispatched than
\* delays have elapsed, also while the queue holds several entries.
C29_SleepBeforeEveryPop ==
    /\ [](Cardinality(Dispatched(status)) <= polls)
    /\ [][/\ Dispatched(status') # Dispatched(status)
                => /\ sched.pc = "sleep"
                   /\ polls' = polls + 1
                   /\ Cardinality(Dispatched(status')) = Cardinality(Dispatched(status)) + 1
          /\ (CallOutstanding /\ sched'.pc # sched.pc /\ sched'.pc # "call")
                => /\ sched' = Asleep
                   /\ task_queue' = task_queue
                   /\ polls' = polls]_vars

\* A call has ended and two files wait in the queue: the scheduler is in the
\* delay that precedes the next pop.
C29_Witness ==
    /\ sched = Asleep
    /\ Len(task_queue) = 2
    /\ polls = 1
    /\ status[1].tag \in {"Success", "Failure"}
    /\ status[2] = Pending

\* C30: whenever the stage is CodeGot and the rows are registered,
\* FileResults holds exactly one entry per file now in the Code Group and no
\* other entry; after a step-2 Back and a new import no entry of the earlier
\* import is left, so retry and export never act on a file that is no longer
\* in the Code Group.
C30_LedgerMatchesGroup ==
    stage = "CodeGot"
        => /\ Len(file_results) = num_files(files)
           /\ \A i \in 1..Len(file_results) : file_results[i] \in CurrentRows
           /\ \A p \in DOMAIN files :
                \E i \in 1..Len(file_results) :
                    /\ rows[file_results[i]].path = p
                    /\ rows[file_results[i]].file = files[p]

\* The row rendered last for path p, 0 when there is none.
LatestRow(p) ==
    LET rs == {r \in DOMAIN rows : rows[r].path = p}
    IN  IF rs = {} THEN 0 ELSE CHOOSE r \in rs : \A q \in rs : q <= r

\* The files of the Code Group whose status is terminal.
SettledFiles ==
    {p \in DOMAIN files :
        LatestRow(p) # 0 /\ status[LatestRow(p)].tag \in {"Success", "Failure"}}

\* C31: in every reachable state the finished-count is at most the number of
\* files in the Code Group whose status is terminal: it never exceeds
\* num_files() and never counts a file that is not part of the current import.
C31_FinishedCountsSettled ==
    /\ num_finished <= num_files(files)
    /\ num_finished <= Cardinality(SettledFiles)

\* C32: whenever the scheduler pops a task from the queue, the shared client
\* slot holds a client: the branch that records Failure("API client not
\* available") is never entered, under every interleaving of key submission,
\* import, Back and retry with the scheduler.
C32_ClientAtEveryPop ==
    /\ sched.pc # "noclient"
    /\ \A r \in DOMAIN status : status[r] # Failure("noclient")

\* C33: if a new client is installed in the shared slot while a call made
\* with the old client is in flight, then at completion the scheduler leaves
\* the new client in the slot and drops the old one: a restore never
\* overwrites a client that is already in the slot.
C33_NewClientKept ==
    [][(CallOutstanding /\ sched'.pc = "sleep" /\ api_client # 0)
        => /\ api_client' = api_client
           /\ api_client' # sched.client
           /\ sched'.client = 0]_vars

\* The file of the first import was in flight over a step-1 Back, a key
\* validation that succeeded after it and a second import, and has completed
\* since (it is counted while the second file still waits): the slot holds
\* the second client.
C33_Witness ==
    /\ api_key_vstate = "Success"
    /\ num_clients = 2
    /\ api_client = 2
    /\ sched = Asleep
    /\ file_results = <<2>>
    /\ task_queue = <<2>>
    /\ status[2] = Pending
    /\ status[1].tag \in {"Success", "Failure"}
    /\ num_finished = 1

\* C34: whenever the workflow stage is Initial or ApiDone the task queue is
\* empty: files are queued only after an import has completed and the stage
\* is CodeGot, and every Back action empties the queue in the same step in
\* which it lowers the stage.
C34_QueueEmptyBelowCodeGot ==
    /\ [](stage \in {"Initial", "ApiDone"} => task_queue = <<>>)
    /\ [][/\ Len(task_queue') > Len(task_queue) => stage' = "CodeGot"
          /\ BackStep => task_queue' = <<>>]_vars

\* C35: the stage becomes CodeGot only from ApiDone and only with a non-empty
\* Code Group: under every interleaving of the step-1 Back action with a
\* pending import (including the delay between import success and the stage
\* change), the stage never goes from Initial directly to CodeGot and is never
\* CodeGot while the Code Group has zero files.
C35_CodeGotFromApiDone ==
    /\ [](stage = "CodeGot" => num_files(files) > 0)
    /\ [][(stage' = "CodeGot" /\ stage # "CodeGot")
            => /\ stage = "ApiDone"
               /\ num_files(files') > 0]_vars

\* The stage is CodeGot for a second import made after a step-1 Back
\* (FileResults was cleared in between and holds the second row only): the
\* stage went from Initial through ApiDone, and the group holds the file of
\* that import.
C35_Witness ==
    /\ stage = "CodeGot"
    /\ import_task = NoImport
    /\ Len(rows) = 2
    /\ file_results = <<2>>
    /\ num_files(files) = 1
    /\ rows[2].path \in DOMAIN files

\* An import task is pending: it holds code_group.write().
ImportPending == import_task.phase # "none"

\* C36: at most one import action is in progress at any time: while one
\* import is pending and holds write access to the Code Group across its
\* suspension points, no second import action and no reset starts on the same
\* Code Group (no handler runs into the held guard), and the group changes
\* only by the pending import itself.
C36_OneImportAtATime ==
    [][ImportPending
        => /\ ~panicked'
           /\ ImportPending' => /\ import_task'.kind = import_task.kind
                                /\ import_task'.input = import_task.input
           /\ files' # files => import_task.phase = "running" /\ import_task'.phase # "running"]_vars

\* What both Back handlers leave behind, with the stage lowered to s.
LeftByBack(s) ==
    /\ files' = EmptyFiles
    /\ ~skipped'
    /\ task_queue' = <<>>
    /\ num_finished' = 0
    /\ ~detection_cp'
    /\ stage' = s
    /\ api_client' = api_client

\* A step of the step-2 Back handler: it is offered at CodeGot only and sets
\* the import's validation state back to Idle; the step-1 handler does so
\* too, and is told apart by the stage it sets.
Back2Step ==
    /\ stage = "CodeGot"
    /\ code_in_vstate' = "Idle"
    /\ code_in_vstate # "Idle"
    /\ stage' # "Initial"

\* A step of the step-1 Back handler: both validation states are Idle
\* afterwards, and the stage is lowered to Initial or the handler has run into
\* the guard of a pending import.
Back1Step ==
    /\ StageRank(stage) > StageRank("Initial")
    /\ api_key_vstate' = "Idle"
    /\ code_in_vstate' = "Idle"
    /\ stage' = "Initial" \/ (panicked' /\ ~panicked)

\* C37: the step-2 Back action leaves the Code Group empty with skipped =
\* false, the task queue empty, the finished-count 0, the completion flag
\* false and the stage ApiDone, and leaves the shared client slot unchanged;
\* the step-1 Back action does the same with stage Initial and additionally
\* empties FileResults.
C37_BackResets ==
    [][/\ Back2Step => LeftByBack("ApiDone")
       /\ Back1Step => LeftByBack("Initial") /\ file_results' = <<>>]_vars

\* What a producer makes of one item it reads: it admits it, passes over it,
\* passes over it and sets the skipped flag, or fails on it.
Item(kind, name) == [kind |-> kind, name |-> name]

ItemOfEntry(e) ==
    IF ~e.is_file \/ e.name.ext \notin LANGUAGE_MAP THEN Item("pass", EmptyName)
    ELSE IF e.size > MAX_FILE_SIZE THEN Item("over", EmptyName)
    ELSE IF ~e.text_ok THEN Item("fail", EmptyName)
    ELSE Item("admit", e.name)

ItemOfFile(f) ==
    IF f.name = EmptyName THEN Item("fail", EmptyName)
    ELSE IF f.name.ext \notin LANGUAGE_MAP THEN Item("pass", EmptyName)
    ELSE IF f.size > MAX_FILE_SIZE THEN Item("over", EmptyName)
    ELSE IF ~f.read_ok THEN Item("fail", EmptyName)
    ELSE Item("admit", f.name)

ItemOfBlob(e, dir, repo) ==
    IF e.type # "blob" \/ e.name.ext \notin LANGUAGE_MAP THEN Item("pass", EmptyName)
    ELSE IF e.size > MAX_FILE_SIZE THEN Item("over", EmptyName)
    ELSE Item("admit", [dir |-> <<repo>> \o dir, stem |-> e.name.stem, ext |-> e.name.ext])

\* The request for the tree of a node, followed by the tree's entries.
ItemsOfTree(trees, node, repo) ==
    IF trees[node.ref].status # "success" THEN <<Item("fail", EmptyName)>>
    ELSE <<Item("pass", EmptyName)>>
         \o [i \in 1..Len(trees[node.ref].entries) |->
               ItemOfBlob(trees[node.ref].entries[i], node.dir, repo)]

\* The subdirectories a tree lists, in the order it lists them.
SubNodes(trees, node) ==
    IF trees[node.ref].status # "success" THEN <<>>
    ELSE LET sub == SelectSeq(trees[node.ref].entries, LAMBDA e : e.type = "tree")
         IN  [i \in 1..Len(sub) |-> [dir |-> node.dir \o <<sub[i].dname>>, ref |-> sub[i].sha]]

RECURSIVE Concat(_)
Concat(ss) == IF ss = <<>> THEN <<>> ELSE Head(ss) \o Concat(Tail(ss))

\* The directories of a repository level by level: breadth-first order.
RECURSIVE Levels(_, _)
Levels(trees, nodes) ==
    IF nodes = <<>> THEN <<>>
    ELSE nodes \o Levels(trees, Concat([i \in 1..Len(nodes) |-> SubNodes(trees, nodes[i])]))

\* Everything the producer of an import could read, in production order.
Production(op, a) ==
    IF op = "import_remote"
    THEN LET nodes == Levels(a.trees, <<[dir |-> <<>>, ref |-> trees_root(a)]>>)
         IN  Concat([i \in 1..Len(nodes) |-> ItemsOfTree(a.trees, nodes[i], NonEmptySegs(a.segs)[2])])
    ELSE IF Len(a) = 1 /\ a[1].name.ext \in ArchiveExts
    THEN [i \in 1..Len(a[1].entries) |-> ItemOfEntry(a[1].entries[i])]
    ELSE [i \in 1..Len(a) |-> ItemOfFile(a[i])]

Admitted(P) == SelectSeq(P, LAMBDA it : it.kind = "admit")

\* The items up to the one with which the list reaches the cap; all of them
\* when it does not.
ReadOf(P, at) == IF Len(at) >= MAX_NUM_FILES THEN SubSeq(P, 1, at[MAX_NUM_FILES]) ELSE P

\* The positions of the admissible items of P.
AdmitPositions(P) == SelectSeq([j \in 1..Len(P) |-> j], LAMBDA j : P[j].kind = "admit")

Has(Q, kind) == SelectSeq(Q, LAMBDA it : it.kind = kind) # <<>>

\* C38: no producer (GitHub traversal, archive decoder, standalone-upload
\* lister) returns more than MAX_NUM_FILES candidates: each stops as soon as
\* its list reaches the cap, so that nothing after that point is read, no
\* further tree is requested and no later item can fail the import or set the
\* skipped flag; the candidates kept are the first MAX_NUM_FILES admissible
\* ones in production order, breadth-first for a repository.  (P, read and
\* want are bound through singleton sets so that each is computed once.)
C38_ProducersStopAtCap ==
    [][called' \in {"import_upload", "import_remote"}
        => \A P \in {Production(called', arg')} :
           \A read \in {ReadOf(P, AdmitPositions(P))} :
           \A want \in {Admitted(read)} :
               /\ Len(presented') <= MAX_NUM_FILES
               /\ IF Has(read, "fail") \/ want = <<>>
                  THEN result' # "Ok" /\ presented' = <<>> /\ files' = files
                  ELSE /\ result' = "Ok"
                       /\ [k \in 1..Len(presented') |-> Item("admit", presented'[k].name)] = want
                       /\ skipped' = (skipped \/ Has(read, "over"))]_vars

\* A repository was imported whose root tree held all but one of the files
\* the cap allows: the hundredth came from the subtree a/, whose second code
\* file and whose subtree a/b/ (a request that would have failed) were left
\* alone.
C38_Witness ==
    /\ called = "import_remote"
    /\ result = "Ok"
    /\ Len(presented) = MAX_NUM_FILES
    /\ num_files(files) = MAX_NUM_FILES
    /\ presented[MAX_NUM_FILES].name = [dir |-> <<"r", "a">>, stem |-> 201, ext |-> ".rs"]
    /\ presented[1].name.dir = <<"r">>
    /\ arg.trees[3].status = "neterr"
    /\ ~skipped

\* A step that imports a non-GitHub URL whose first probe is answered with a
\* success status.
DirectProbe ==
    /\ called' = "import_remote"
    /\ arg'.parse = "ok"
    /\ arg'.host # GITHUB_HOST_STR
    /\ arg'.head.status = "success"

\* The import returns Err(kind) and the group is as before.
ImportFails(kind) == result' = kind /\ files' = files

\* The length header's value, 0 when the header is absent.
HeaderSize(h) == IF h.length >= 0 THEN h.length ELSE 0

\* The import returns Ok and added exactly one Remote file, named by url's
\* path, pointing at url, with the size announced in h.
AdmitsOne(url, h) ==
    /\ result' = "Ok"
    /\ Len(presented') = 1
    /\ presented'[1].name = url.name
    /\ presented'[1].file.origin = "Remote"
    /\ presented'[1].file.src.id = url.id
    /\ presented'[1].file.size = HeaderSize(h)
    /\ files' = files @@ (url.name :> presented'[1].file)
    /\ num_files(files') = num_files(files) + 1

RedirectProbe ==
    /\ called' = "import_remote"
    /\ arg'.parse = "ok"
    /\ arg'.host # GITHUB_HOST_STR
    /\ arg'.head.status = "redirect"

\* The import is decided by url's path and its successful response h alone.
DecidedBy(url, h) ==
    IF h.ctype \in {"html", "none"} THEN ImportFails("Parse")
    ELSE IF h.length > MAX_FILE_SIZE THEN ImportFails("Limit")
    ELSE IF url.name.ext = "" THEN ImportFails("Parse")
    ELSE IF url.name.ext \notin LANGUAGE_MAP THEN ImportFails("Exten")
    ELSE IF url.name \in DOMAIN files THEN ImportFails("Exists")
    ELSE AdmitsOne(url, h)

\* C40: single-file resolution follows one redirect hop and no more. After a
\* redirect with an absolute or relative Location the import is decided by the
\* resolved URL and the response to its probe, and a file that is admitted is
\* named by and points at the resolved URL; a redirect without usable
\* Location, and a second response that is a redirect, another non-success
\* status or a transport error, fail the import with Status and add no file.
C40_OneRedirectHop ==
    [][RedirectProbe
        => IF arg'.head.location \notin {"abs", "rel"} \/ arg'.target.head.status # "success"
           THEN ImportFails("Status") /\ presented' = <<>>
           ELSE /\ DecidedBy(arg'.target, arg'.target.head)
                /\ result' = "Ok" => /\ presented'[1].name # arg'.name
                                     /\ presented'[1].file.src.id # arg'.id
                                     /\ arg'.name \notin DOMAIN files => arg'.name \notin DOMAIN files']_vars

\* A URL without code extension redirected through a relative Location to a
\* code file, which was admitted under the resolved URL.
C40_Witness ==
    /\ called = "import_remote"
    /\ arg.host # GITHUB_HOST_STR
    /\ arg.head.status = "redirect"
    /\ arg.head.location = "rel"
    /\ arg.name.ext = ".png"
    /\ result = "Ok"
    /\ Len(presented) = 1
    /\ presented[1].name = arg.target.name
    /\ presented[1].file.src.id = arg.target.id
    /\ arg.target.name \in DOMAIN files
    /\ files[arg.target.name] = presented[1].file

====
